---------------------------- MODULE Spec2Model ----------------------------
(***************************************************************************)
(* Agent orchestration runtime of Professor_Profiler:                      *)
(*   google/adk/agents/agent.py        Agent.initialize / Agent.run        *)
(*   google/adk/runners/runner.py      Runner.run_async                    *)
(*   google/adk/sessions/in_memory_session_service.py                      *)
(*                                                                         *)
(* Scheduling is asyncio's: one task runs at a time and keeps the event    *)
(* loop until it suspends.  The suspension points of a pass are the two    *)
(* yields of the async generator run_async and the await of the backend    *)
(* call in Agent._execute_llm.  `running` names the task that holds the    *)
(* event loop; every other step of a task needs running = that task.       *)
(*                                                                         *)
(* Texts are sequences of tokens (strings); a user message is a sequence   *)
(* of one-character tokens so that the slice message_text[:100] is         *)
(* computed, not assumed.                                                  *)
(***************************************************************************)
EXTENDS Integers, Sequences, FiniteSets, TLC

VARIABLES
    client,        \* Runner.client: "none" (mock mode) or the backend handle
    sub_agents,    \* Agent.sub_agents of every node (fixed at construction)
    agentClient,   \* Agent.client of every node
    agentContext,  \* Agent.context of every node (a reference to a dict)
    sessions,      \* InMemorySessionService._sessions
    task,          \* the Runner passes / direct Agent.run calls in flight
    running,       \* the task that holds the event loop, or "none"
    ret,           \* the application's last call of the session service: the
                   \* store before it, its arguments and what it returned
    log,           \* per session key: the entries add_message was called with
                   \* since the session was created, or Overwritten once
                   \* update_session has replaced the session's messages
    keys,          \* the session keys in the order they were inserted into the
                   \* partition dicts (a dict iterates in insertion order)
    now,           \* the reading of the clock (datetime.now(), time.time())
    counters,      \* MetricsCollector._counters
    gauges,        \* MetricsCollector._gauges
    histograms,    \* MetricsCollector._histograms
    lock,          \* MetricsCollector._lock: the thread that holds it, or "none"
    thread,        \* the calls of the MetricsCollector in flight, one per thread
    recorded,      \* what the updates that took effect since the last reset
                   \* were called with
    report,        \* what the last get_metrics returned
    traces,        \* Tracer._traces
    tret           \* the application's last call of the Tracer

vars == <<client, sub_agents, agentClient, agentContext, sessions, task, running,
          ret, log, keys, now, counters, gauges, histograms, lock, thread,
          recorded, report, traces, tret>>

\* The state of profiler_agent/observability.py
MetricsVars == <<counters, gauges, histograms, lock, thread, recorded, report>>
TracerVars == <<traces, tret>>
\* The state of the agents and of the Runner passes
RunnerVars == <<client, sub_agents, agentClient, agentContext, task, running>>
\* The state of the session service and the clock
StoreVars == <<sessions, ret, log, keys, now>>

(***************************************************************************)
(* Bounds and identifiers                                                  *)
(***************************************************************************)
MaxBackendCalls == 4               \* backend calls per behaviour
MaxMessages == 2                   \* add_message calls per session
MaxLimit == 3                      \* largest limit given to get_messages
MaxClock == 2                      \* last reading of the clock
MaxCount == 2                      \* largest sum of the increments of a counter
MaxObservations == 3               \* observations in the histograms
MaxSpans == 2                      \* spans added to all traces together

Tasks == {"p1", "p2"}
Nodes == {"root", "A", "B", "C"}
RootAgent == "root"
AppName == "app"
Users == {"u1"}                    \* the users of the Runner passes
OtherUser == "u2"                  \* a user whose sessions no pass touches
SessionIds == {"s1", "s2"}
Handle == "h"

\* message_text[:100]
PrefixLen == 100

LongMessage(last) == [i \in 1..(PrefixLen + 1) |-> IF i = PrefixLen + 1 THEN last ELSE "q"]
Messages == {LongMessage("a"), LongMessage("b")}

\* The two shapes of agent tree the runs are checked on.
FlatTree == [n \in Nodes |-> IF n = "root" THEN <<"A", "B", "C">> ELSE << >>]
PairTree == [n \in Nodes |-> IF n = "root" THEN <<"A">> ELSE << >>]
DeepTree == [n \in Nodes |-> IF n = "root" THEN <<"C">>
                             ELSE IF n = "C" THEN <<"A">> ELSE << >>]

\* Agent.tools: the names of the node's tools, in list order.
tools == [n \in Nodes |-> IF n = "root" THEN <<"t1", "t2">> ELSE << >>]

Range(s) == {s[i] : i \in DOMAIN s}

RECURSIVE TreeNodes(_, _)
TreeNodes(subs, n) ==
    {n} \cup UNION {TreeNodes(subs, subs[n][i]) : i \in DOMAIN subs[n]}

(***************************************************************************)
(* Dicts                                                                   *)
(***************************************************************************)
EmptyDict == << >>

\* (mutant) the dict is replaced by the update
DictReplace(d, u) == u

\* d.update(u)
DictUpdate(d, u) ==
    [k \in (DOMAIN d) \cup (DOMAIN u) |-> IF k \in DOMAIN u THEN u[k] ELSE d[k]]

(***************************************************************************)
(* InMemorySessionService                                                  *)
(***************************************************************************)
\* self._sessions[app_name][user_id] on the nested defaultdict: the access
\* itself creates the application and the user partition.
Partition(store, app, user) ==
    LET s1 == IF app \in DOMAIN store THEN store
              ELSE [a \in (DOMAIN store) \cup {app} |->
                       IF a = app THEN << >> ELSE store[a]]
    IN  IF user \in DOMAIN s1[app] THEN s1
        ELSE [s1 EXCEPT ![app] =
                 [u \in (DOMAIN s1[app]) \cup {user} |->
                     IF u = user THEN << >> ELSE s1[app][u]]]

HasSession(store, app, user, sid) ==
    /\ app \in DOMAIN store
    /\ user \in DOMAIN store[app]
    /\ sid \in DOMAIN store[app][user]

PutSession(store, app, user, sid, data) ==
    LET s1 == Partition(store, app, user)
    IN  [s1 EXCEPT ![app][user] =
            [k \in (DOMAIN s1[app][user]) \cup {sid} |->
                IF k = sid THEN data ELSE s1[app][user][k]]]

\* created_at and updated_at are datetime.now().isoformat(): the reading of
\* the clock at the call (ISO strings of one format compare as the readings).
\* "context" and "metadata" are both `metadata or {}`: the caller's dict
\* itself, one object under both keys, when it is not empty, and two new
\* dicts otherwise.  context_is_metadata records which (it is no key of the
\* Python dict).
create_session(store, app, user, sid, metadata) ==
    PutSession(store, app, user, sid,
               [session_id |-> sid, user_id |-> user, app_name |-> app,
                created_at |-> now, updated_at |-> now,
                messages |-> << >>, context |-> metadata, metadata |-> metadata,
                context_is_metadata |-> (DOMAIN metadata # {})])

\* (mutant) get_session makes a new session whether or not there is one
get_session_anew(store, app, user, sid) ==
    create_session(store, app, user, sid, EmptyDict)

\* get_session returns the record; the store after the call is what it
\* returned it from.
get_session(store, app, user, sid) ==
    IF HasSession(store, app, user, sid)
    THEN Partition(store, app, user)
    ELSE create_session(store, app, user, sid, EmptyDict)

add_message(store, app, user, sid, role, content) ==
    LET s1 == get_session(store, app, user, sid)
        message == [role |-> role, content |-> content, metadata |-> EmptyDict]
    IN  [s1 EXCEPT ![app][user][sid].messages = Append(@, message),
                   ![app][user][sid].updated_at = now]

\* session["context"].update(context_updates): the dict under "context" is
\* changed in place, so under "metadata" too when it is the same object.
ContextUpdated(session, context_updates) ==
    [session EXCEPT
        !.context = DictUpdate(@, context_updates),
        !.metadata = IF session.context_is_metadata
                     THEN DictUpdate(session.context, context_updates) ELSE @]

\* (mutant) the context of every session that has the id is updated
update_context_by_id(store, app, user, sid, context_updates) ==
    LET s1 == get_session(store, app, user, sid)
    IN  [a \in DOMAIN s1 |-> [u \in DOMAIN s1[a] |-> [k \in DOMAIN s1[a][u] |->
            IF k = sid
            THEN [ContextUpdated(s1[a][u][k], context_updates) EXCEPT !.updated_at = now]
            ELSE s1[a][u][k]]]]

update_context(store, app, user, sid, context_updates) ==
    LET s1 == get_session(store, app, user, sid)
    IN  [s1 EXCEPT ![app][user][sid] =
            [ContextUpdated(@, context_updates) EXCEPT !.updated_at = now]]

MessagesOf(store, app, user, sid) ==
    IF HasSession(store, app, user, sid) THEN store[app][user][sid].messages ELSE << >>

\* session.update(updates): a "context" or "metadata" of the updates is
\* another object than the one the session had under both keys.
SessionUpdated(session, updates) ==
    [DictUpdate(session, updates) EXCEPT
        !.context_is_metadata =
            @ /\ DOMAIN updates \cap {"context", "metadata"} = {}]

\* (mutant) update_session gets or creates the session like the other calls
update_or_create(store, app, user, sid, updates) ==
    [get_session(store, app, user, sid) EXCEPT
        ![app][user][sid] = [SessionUpdated(@, updates) EXCEPT !.updated_at = now]]

\* update_session raises ValueError on a key with no session (the test of
\* line 66 has by then made the application and user partition); otherwise
\* session.update(updates).
update_session(store, app, user, sid, updates) ==
    IF HasSession(store, app, user, sid)
    THEN [store EXCEPT ![app][user][sid] =
             [SessionUpdated(@, updates) EXCEPT !.updated_at = now]]
    ELSE Partition(store, app, user)

\* limit: None or an integer
None == [none |-> TRUE, n |-> 0]
Limit(k) == [none |-> FALSE, n |-> k]

Max(a, b) == IF a > b THEN a ELSE b

\* (mutant) the first `limit` entries, not the last
SliceFirst(messages, limit) ==
    IF limit.none \/ limit.n = 0 THEN messages
    ELSE SubSeq(messages, 1, IF limit.n < Len(messages) THEN limit.n ELSE Len(messages))

\* `if limit: return messages[-limit:]`, else messages (None and 0 are false)
Slice(messages, limit) ==
    IF limit.none \/ limit.n = 0 THEN messages
    ELSE SubSeq(messages, Max(1, Len(messages) - limit.n + 1), Len(messages))

\* get_messages: the session is got (or created) first
get_messages(store, app, user, sid, limit) ==
    Slice(get_session(store, app, user, sid)[app][user][sid].messages, limit)

\* (mutant) delete_session empties the user's partition
delete_all(store, app, user, sid) ==
    LET s1 == Partition(store, app, user)
    IN  IF sid \in DOMAIN s1[app][user] THEN [s1 EXCEPT ![app][user] = << >>] ELSE s1

delete_session(store, app, user, sid) ==
    LET s1 == Partition(store, app, user)
    IN  [s1 EXCEPT ![app][user] =
            [k \in (DOMAIN s1[app][user]) \ {sid} |-> s1[app][user][k]]]

\* The keys of the sessions of the store
UserPartitions(store) ==
    UNION {{<<a, u>> : u \in DOMAIN store[a]} : a \in DOMAIN store}

SessionKeys(store) ==
    UNION {{<<p[1], p[2], sid>> : sid \in DOMAIN store[p[1]][p[2]]} :
               p \in UserPartitions(store)}

\* The insertion order of the dicts after a call that left `store`: a deleted
\* key is gone, a key assigned again keeps its place, a new key is last.
KeyOrder(order, store) ==
    LET kept == SelectSeq(order, LAMBDA k : k \in SessionKeys(store))
        new == SessionKeys(store) \ Range(order)
    IN  IF new = {} THEN kept ELSE Append(kept, CHOOSE k \in new : TRUE)

\* sorted(sessions, key=updated_at, reverse=True): a stable sort, so sessions
\* of one updated_at stay in the order of the list that is sorted.
RECURSIVE Sorted(_)
Sorted(list) ==
    IF list = << >> THEN << >>
    ELSE LET x == list[Len(list)]
             rest == Sorted(SubSeq(list, 1, Len(list) - 1))
         IN  SelectSeq(rest, LAMBDA y : y.updated_at >= x.updated_at)
                 \o <<x>>
                 \o SelectSeq(rest, LAMBDA y : y.updated_at < x.updated_at)

\* list(self._sessions[app_name][user_id].values()): in insertion order
Values(store, order, app, user) ==
    LET mine == SelectSeq(order, LAMBDA k : k[1] = app /\ k[2] = user)
    IN  [i \in 1..Len(mine) |-> store[app][user][mine[i][3]]]

list_sessions(store, order, app, user) ==
    Sorted(Values(Partition(store, app, user), order, app, user))

get_context(store, app, user, sid) ==
    get_session(store, app, user, sid)[app][user][sid].context

\* get_stats: the sums of the two generator expressions and the list of the
\* application names.
\* (mutant) equal terms are added once
RECURSIVE SumOfDistinct(_)
SumOfDistinct(f) ==
    IF DOMAIN f = {} THEN 0
    ELSE LET x == CHOOSE y \in DOMAIN f : TRUE
         IN  f[x] + SumOfDistinct([y \in {z \in DOMAIN f : f[z] # f[x]} |-> f[y]])

RECURSIVE SumOf(_)
SumOf(f) ==
    IF DOMAIN f = {} THEN 0
    ELSE LET x == CHOOSE y \in DOMAIN f : TRUE
         IN  f[x] + SumOf([y \in (DOMAIN f) \ {x} |-> f[y]])

get_stats(store) ==
    [total_sessions |->
         SumOf([p \in UserPartitions(store) |-> Cardinality(DOMAIN store[p[1]][p[2]])]),
     total_messages |->
         SumOf([k \in SessionKeys(store) |-> Len(store[k[1]][k[2]][k[3]].messages)]),
     apps |-> DOMAIN store]


(***************************************************************************)
(* Texts                                                                   *)
(***************************************************************************)
\* The replies of the backend (external): a list of parts, each a text or a
\* function call (name and arguments); or the call raises an Exception; or the
\* awaiting task is cancelled while it waits (asyncio.CancelledError, a
\* BaseException).
TextPart(t) == [function_call |-> "none", args |-> "none", text |-> t]
CallPart(f, a) == [function_call |-> f, args |-> a, text |-> << >>]
BackendTexts == {<<"x">>}
FunctionNames == {"t2", "zz"}
TextReplies ==
    {[kind |-> "parts", parts |-> <<TextPart(t)>>] : t \in BackendTexts}
    \cup {[kind |-> "fail", parts |-> << >>], [kind |-> "cancel", parts |-> << >>]}
CallReplies ==
    {[kind |-> "parts", parts |-> <<CallPart(f, "a1")>>] : f \in FunctionNames}
    \cup {[kind |-> "parts", parts |-> <<TextPart(<<"x">>), CallPart("t2", "a2")>>]}
\* The backend answers with a function call only where the request declared
\* tools (Agent._prepare_tool_config gives None for a node without tools).
BackendReplies(n) ==
    IF tools[n] = << >> THEN TextReplies ELSE TextReplies \cup CallReplies

BackendError == <<"backend failed">>
ToolError == <<"tool failed">>
CallbackError == <<"callback failed">>
CallbackText == <<"replaced">>

\* The node that has an after_agent_callback.
HasCallback(n) == n = "C"

\* json.dumps of a tool's result / of {"error": ...}
JsonDumps(v) == <<"{">> \o v \o <<"}">>
ToolResult(name, args) == <<"result of ", name, "(", args, ")">>
ToolNotFound(name) == JsonDumps(<<"error", ": ", "Tool ", name, " not found">>)

NotInitialized(n) == <<"Agent ", n, " not initialized with client">>

InitialLabel(n) == <<"[", n, " Initial Response]", "\n">>
SubLabel(n) == <<"\n", "[", n, " Response]", "\n">>

\* "\n".join(results)
RECURSIVE JoinLines(_)
JoinLines(results) ==
    IF Len(results) = 0 THEN << >>
    ELSE IF Len(results) = 1 THEN results[1]
    ELSE results[1] \o <<"\n">> \o JoinLines(Tail(results))

Min(a, b) == IF a < b THEN a ELSE b

\* message_text[:100]
Prefix(text) == SubSeq(text, 1, Min(PrefixLen, Len(text)))

\* (mutant) the whole input echoed, not its first 100 characters
MockResponseWhole(agent, message_text) ==
    <<"[Mock Response] ", agent, " processed: ">> \o message_text

MockResponse(agent, message_text) ==
    <<"[Mock Response] ", agent, " processed: ">> \o Prefix(message_text)

(***************************************************************************)
(* Context references.  A context is a dict object: the context dict of a  *)
(* session or a fresh {} made by `context or {}`.                          *)
(***************************************************************************)
FreshCtx == [obj |-> "fresh", key |-> << >>]
SessionCtx(app, user, sid) == [obj |-> "session", key |-> <<app, user, sid>>]
\* a non-empty dict that a direct caller of Agent.run passes as context
CallerCtx(t) == [obj |-> "caller", key |-> <<t>>]

CtxValue(store, ref) ==
    IF ref.obj = "session"
    THEN IF HasSession(store, ref.key[1], ref.key[2], ref.key[3])
         THEN store[ref.key[1]][ref.key[2]][ref.key[3]].context
         ELSE EmptyDict
    ELSE IF ref.obj = "caller" THEN [k |-> "v"]
    ELSE EmptyDict

\* context or {}
ContextOrEmpty(store, ref) ==
    IF DOMAIN CtxValue(store, ref) = {} THEN FreshCtx ELSE ref

(***************************************************************************)
(* Agent                                                                   *)
(***************************************************************************)
\* (mutant) the handle reaches the node's own sub-agents only
initializeChildren(clients, subs, n, h) ==
    [m \in DOMAIN clients |->
        IF m = n \/ m \in Range(subs[n]) THEN h ELSE clients[m]]

\* Agent.initialize: binds the handle to the node and to every descendant.
RECURSIVE initialize(_, _, _, _)
initialize(clients, subs, n, h) ==
    LET RECURSIVE Each(_, _)
        Each(cl, i) ==
            IF i > Len(subs[n]) THEN cl
            ELSE Each(initialize(cl, subs, subs[n][i], h), i + 1)
    IN  Each([clients EXCEPT ![n] = h], 1)

Response(n, text) == [agent |-> n, has |-> "response", value |-> text]
Error(n, msg) == [agent |-> n, has |-> "error", value |-> msg]
NoResult == [agent |-> "none", has |-> "none", value |-> << >>]

\* result.get(key, default)
ResultGet(result, key, default) ==
    IF result.has = key THEN result.value ELSE default

\* The frame of one Agent.run call, from its entry to the await of the
\* backend call.
Frame(n, prompt, context, bound) ==
    [node |-> n, prompt |-> prompt, context |-> context, bound |-> bound,
     pc |-> "llm", parts |-> << >>, response |-> << >>,
     function_call |-> "none", args |-> "none",
     results |-> << >>, subRuns |-> << >>, calls |-> 0, executed |-> << >>,
     callbacks |-> << >>, result |-> NoResult]

(***************************************************************************)
(* Tasks                                                                   *)
(***************************************************************************)
IdleTask ==
    [pc |-> "idle", direct |-> "none", raised |-> << >>,
     user_id |-> "", session_id |-> "",
     message_text |-> << >>, events |-> << >>, stack |-> << >>,
     response_text |-> << >>, result |-> NoResult, rootRun |-> << >>,
     backendCalls |-> 0]

RunnerEvent(text, agent, is_final, metadata) ==
    [text |-> text, agent_name |-> agent, is_final |-> is_final, metadata |-> metadata]

Top(t) == task[t].stack[Len(task[t].stack)]
InRun(t, pc) ==
    /\ running = t
    /\ task[t].pc = "agent"
    /\ Len(task[t].stack) > 0
    /\ Top(t).pc = pc

SetTop(t, frame) ==
    [task EXCEPT ![t].stack = [@ EXCEPT ![Len(@)] = frame]]

(***************************************************************************)
(* profiler_agent/observability.py                                         *)
(*                                                                         *)
(* MetricsCollector.  Its callers are threads: a call waits for the lock,   *)
(* then runs the statements of its `with self._lock:` block one at a time; *)
(* the lock is released with the last of them.                             *)
(***************************************************************************)
Threads == {"th1", "th2"}

Get(d, key, default) == IF key \in DOMAIN d THEN d[key] ELSE default
Put(d, key, v) == [x \in (DOMAIN d) \cup {key} |-> IF x = key THEN v ELSE d[x]]

MetricState == [counters |-> counters, gauges |-> gauges, histograms |-> histograms]
NoMetrics == [counters |-> << >>, gauges |-> << >>, histograms |-> << >>]

IdleThread ==
    [op |-> "none", pc |-> "idle", key |-> "", value |-> 0, tmp |-> 0,
     histogram_stats |-> << >>, counters |-> << >>, seen |-> NoMetrics]

NoRecord == [counters |-> << >>, histograms |-> << >>, concurrent |-> FALSE]
NoReport ==
    [has |-> FALSE, counters |-> << >>, gauges |-> << >>, histograms |-> << >>,
     timestamp |-> 0, seen |-> NoMetrics, state |-> NoMetrics, recorded |-> NoRecord]

MetricsInit ==
    /\ counters = << >>
    /\ gauges = << >>
    /\ histograms = << >>
    /\ lock = "none"
    /\ thread = [th \in Threads |-> IdleThread]
    /\ recorded = NoRecord
    /\ report = NoReport

At(th, op, pc) == thread[th].op = op /\ thread[th].pc = pc

\* The calls of `op` on `key` that have not taken effect yet
Pending(op, key) ==
    {th \in Threads : thread[th].op = op /\ thread[th].key = key /\ thread[th].pc # "idle"}

\* (mutant) the lock is taken whether or not it is held
LockIgnored == TRUE

\* threading.Lock: acquire waits until the lock is free
LockFree == lock = "none"

\* A thread calls a method: key = _make_key(metric, tags) with no tags, then
\* it is at `with self._lock:`.
Invoke(th, op, key, value) ==
    /\ thread[th].pc = "idle"
    /\ thread' = [thread EXCEPT ![th] =
                     [IdleThread EXCEPT !.op = op, !.pc = "lock", !.key = key, !.value = value]]
    /\ recorded' = [recorded EXCEPT !.concurrent =
                        @ \/ (op = "increment" /\ Pending("increment", key) # {})]
    /\ UNCHANGED <<counters, gauges, histograms, lock, report>>

\* The thread acquires the lock and is at the first statement of the block.
Enter(th, op, pc) ==
    /\ At(th, op, "lock")
    /\ LockFree
    /\ lock' = th
    /\ thread' = [thread EXCEPT ![th].pc = pc, ![th].seen = MetricState]
    /\ UNCHANGED <<counters, gauges, histograms, recorded, report>>

Idle(th) == [thread EXCEPT ![th] = IdleThread]

\* increment, lines 142-144.  self._counters[key] += value reads the counter
\* (the defaultdict inserts 0 for a new key), adds, and stores the sum.
increment(th, key, value) ==
    /\ UNCHANGED <<RunnerVars, StoreVars, TracerVars>>
    /\ UNCHANGED <<gauges, histograms, report>>
    /\ \/ /\ Get(counters, key, 0) + value * (Cardinality(Pending("increment", key)) + 1)
                  \in (0 - MaxCount)..MaxCount
          /\ Invoke(th, "increment", key, value)
       \/ /\ key = thread[th].key /\ value = thread[th].value
          /\ Enter(th, "increment", "load")
       \/ /\ key = thread[th].key /\ value = thread[th].value
          /\ At(th, "increment", "load")
          /\ counters' = Put(counters, key, Get(counters, key, 0))
          /\ thread' = [thread EXCEPT ![th].pc = "store", ![th].tmp = Get(counters, key, 0)]
          /\ UNCHANGED <<lock, recorded>>
       \/ /\ key = thread[th].key /\ value = thread[th].value
          /\ At(th, "increment", "store")
          /\ counters' = Put(counters, key, thread[th].tmp + value)
          /\ recorded' = [recorded EXCEPT !.counters =
                              Put(@, key, Get(@, key, 0) + value)]
          /\ thread' = Idle(th)
          /\ lock' = "none"

\* gauge, lines 148-150
gauge(th, key, value) ==
    /\ UNCHANGED <<RunnerVars, StoreVars, TracerVars>>
    /\ UNCHANGED <<counters, histograms, report>>
    /\ \/ Invoke(th, "gauge", key, value)
       \/ /\ key = thread[th].key /\ value = thread[th].value
          /\ Enter(th, "gauge", "set")
       \/ /\ key = thread[th].key /\ value = thread[th].value
          /\ At(th, "gauge", "set")
          /\ gauges' = Put(gauges, key, value)
          /\ thread' = Idle(th)
          /\ lock' = "none"
          /\ UNCHANGED recorded

\* histogram, lines 154-156
histogram(th, key, value) ==
    /\ UNCHANGED <<RunnerVars, StoreVars, TracerVars>>
    /\ UNCHANGED <<counters, gauges, report>>
    /\ \/ /\ SumOf([x \in DOMAIN histograms |-> Len(histograms[x])])
                  + Cardinality({t \in Threads : thread[t].op = "histogram"})
                  < MaxObservations
          /\ Invoke(th, "histogram", key, value)
       \/ /\ key = thread[th].key /\ value = thread[th].value
          /\ Enter(th, "histogram", "append")
       \/ /\ key = thread[th].key /\ value = thread[th].value
          /\ At(th, "histogram", "append")
          /\ histograms' = Put(histograms, key, Append(Get(histograms, key, << >>), value))
          /\ recorded' = [recorded EXCEPT !.histograms =
                              Put(@, key, Append(Get(@, key, << >>), value))]
          /\ thread' = Idle(th)
          /\ lock' = "none"

\* sum(values), min(values), max(values): one pass over the list
RECURSIVE sum(_)
sum(values) ==
    IF values = << >> THEN 0 ELSE values[1] + sum(Tail(values))

RECURSIVE min(_)
min(values) ==
    IF Len(values) = 1 THEN values[1] ELSE Min(values[1], min(Tail(values)))

RECURSIVE max(_)
max(values) ==
    IF Len(values) = 1 THEN values[1] ELSE Max(values[1], max(Tail(values)))

\* a / b, the quotient as a fraction in lowest terms (a >= 0, b > 0)
RECURSIVE GCD(_, _)
GCD(a, b) == IF b = 0 THEN a ELSE GCD(b, a % b)
Divide(a, b) == [num |-> a \div GCD(a, b), den |-> b \div GCD(a, b)]

\* (mutant) the list is taken to be sorted
StatsOfSorted(values) ==
    [count |-> Len(values), sum |-> sum(values),
     mean |-> Divide(sum(values), Len(values)),
     min |-> values[1], max |-> values[Len(values)]]

\* lines 173-179
Stats(values) ==
    [count |-> Len(values), sum |-> sum(values),
     mean |-> Divide(sum(values), Len(values)),
     min |-> min(values), max |-> max(values)]

\* (mutant) the reduction takes the observations out
Drained(h) == << >>

\* for key, values in self._histograms.items(): the loop reads the dict
Iterated(h) == h

\* get_metrics, lines 168-186
get_metrics(th) ==
    /\ UNCHANGED <<RunnerVars, StoreVars, TracerVars>>
    /\ UNCHANGED <<counters, gauges, recorded>>
    /\ \/ Invoke(th, "get_metrics", "", 0) /\ UNCHANGED histograms
       \/ Enter(th, "get_metrics", "reduce") /\ UNCHANGED histograms
       \/ /\ At(th, "get_metrics", "reduce")
          /\ thread' = [thread EXCEPT
                 ![th].pc = "return",
                 ![th].histogram_stats =
                     [key \in {x \in DOMAIN histograms : histograms[x] # << >>} |->
                         Stats(histograms[key])]]
          /\ histograms' = Iterated(histograms)
          /\ UNCHANGED <<lock, report>>
       \/ /\ At(th, "get_metrics", "return")
          /\ report' = [has |-> TRUE, counters |-> counters, gauges |-> gauges,
                        histograms |-> thread[th].histogram_stats,
                        timestamp |-> now,
                        seen |-> thread[th].seen, state |-> MetricState,
                        recorded |-> recorded]
          /\ thread' = Idle(th)
          /\ lock' = "none"
          /\ UNCHANGED histograms

\* (mutant) the lock is given up after every clear
Unlocked(th) == "none"

\* the lock between the statements of reset: held by the thread
StillLocked(th) == th

\* reset, lines 190-193
reset(th) ==
    /\ UNCHANGED <<RunnerVars, StoreVars, TracerVars>>
    /\ UNCHANGED report
    /\ \/ Invoke(th, "reset", "", 0)
       \/ Enter(th, "reset", "clear_counters")
       \/ /\ At(th, "reset", "clear_counters")
          /\ counters' = << >>
          /\ recorded' = [recorded EXCEPT !.counters = << >>, !.concurrent = FALSE]
          /\ thread' = [thread EXCEPT ![th].pc = "clear_gauges"]
          /\ lock' = StillLocked(th)
          /\ UNCHANGED <<gauges, histograms>>
       \/ /\ At(th, "reset", "clear_gauges")
          /\ gauges' = << >>
          /\ thread' = [thread EXCEPT ![th].pc = "clear_histograms"]
          /\ lock' = StillLocked(th)
          /\ UNCHANGED <<counters, histograms, recorded>>
       \/ /\ At(th, "reset", "clear_histograms")
          /\ histograms' = << >>
          /\ recorded' = [recorded EXCEPT !.histograms = << >>]
          /\ thread' = Idle(th)
          /\ lock' = "none"
          /\ UNCHANGED <<counters, gauges>>

(***************************************************************************)
(* Tracer.  _traces maps a trace id to its record; every method body is    *)
(* one `with self._lock:` block, so a call is one step.  tret is the last  *)
(* call: its arguments, what it returned, the traces before it and the     *)
(* reading of the clock in it.                                             *)
(***************************************************************************)
TraceIds == {"t1", "t2"}
SpanNames == {"a", "b"}

NoTracerCall == [op |-> "none"]

TracerInit ==
    /\ traces = << >>
    /\ tret = NoTracerCall

\* The spans of all traces together
RECURSIVE Spans(_)
Spans(t) ==
    IF DOMAIN t = {} THEN 0
    ELSE LET tid == CHOOSE x \in DOMAIN t : TRUE
         IN  Len(t[tid].spans) + Spans([x \in DOMAIN t \ {tid} |-> t[x]])

\* end_trace has set end_time in the record
Ended(trace) == "end_time" \in DOMAIN trace

\* start_trace, lines 83-94: a fresh uuid4, the record stored under it
start_trace(trace_id, operation) ==
    /\ trace_id \notin DOMAIN traces
    /\ traces' = Put(traces, trace_id,
                     [trace_id |-> trace_id, operation |-> operation,
                      start_time |-> now, metadata |-> EmptyDict, spans |-> << >>])
    /\ tret' = [op |-> "start_trace", trace_id |-> trace_id, value |-> trace_id,
                before |-> traces, at |-> now]
    /\ UNCHANGED <<RunnerVars, StoreVars, MetricsVars>>

\* (mutant) a trace is made for an id that has none
SpanAddedAnyway(t, trace_id, span) ==
    IF trace_id \in DOMAIN t
    THEN [t EXCEPT ![trace_id].spans = Append(@, span)]
    ELSE Put(t, trace_id, [trace_id |-> trace_id, operation |-> "", start_time |-> 0,
                           metadata |-> EmptyDict, spans |-> <<span>>])

\* lines 104-111: if trace_id in self._traces: ...["spans"].append(span)
SpanAdded(t, trace_id, span) ==
    IF trace_id \in DOMAIN t
    THEN [t EXCEPT ![trace_id].spans = Append(@, span)]
    ELSE t

\* add_span, lines 96-111
add_span(trace_id, name, duration_ms) ==
    /\ Spans(traces) < MaxSpans
    /\ traces' = SpanAdded(traces, trace_id,
                           [name |-> name, duration_ms |-> duration_ms,
                            timestamp |-> now, metadata |-> EmptyDict])
    /\ tret' = [op |-> "add_span", trace_id |-> trace_id, value |-> None,
                before |-> traces, at |-> now]
    /\ UNCHANGED <<RunnerVars, StoreVars, MetricsVars>>

\* lines 119-121: end_time and total_duration_ms are set in the stored record
TraceEnded(t, trace_id, end_time) ==
    [x \in DOMAIN t |->
        IF x = trace_id
        THEN [trace_id |-> t[x].trace_id, operation |-> t[x].operation,
              start_time |-> t[x].start_time, metadata |-> t[x].metadata,
              spans |-> t[x].spans, end_time |-> end_time,
              total_duration_ms |-> (end_time - t[x].start_time) * 1000]
        ELSE t[x]]

\* end_trace, lines 113-123: {} for an id that is not in the table, else the
\* stored record with its end time and duration
end_trace(trace_id) ==
    /\ IF trace_id \notin DOMAIN traces
       THEN /\ traces' = traces
            /\ tret' = [op |-> "end_trace", trace_id |-> trace_id,
                        value |-> EmptyDict, before |-> traces, at |-> now]
       ELSE /\ traces' = TraceEnded(traces, trace_id, now)
            /\ tret' = [op |-> "end_trace", trace_id |-> trace_id,
                        value |-> TraceEnded(traces, trace_id, now)[trace_id],
                        before |-> traces, at |-> now]
    /\ UNCHANGED <<RunnerVars, StoreVars, MetricsVars>>

\* get_trace, lines 125-128
get_trace(trace_id) ==
    /\ traces' = traces
    /\ tret' = [op |-> "get_trace", trace_id |-> trace_id,
                value |-> Get(traces, trace_id, None), before |-> traces, at |-> now]
    /\ UNCHANGED <<RunnerVars, StoreVars, MetricsVars>>

(***************************************************************************)
(* trace_operation(operation_name): the wrapper around a function.  The    *)
(* callers are the threads (or tasks of the event loop); a caller is       *)
(* inside the wrapped function from the wrapper's start_trace to the       *)
(* outcome of the function.  Every Tracer and MetricsCollector method the  *)
(* wrapper calls runs under that object's lock, and the wrapper does not   *)
(* await between them, so what follows the outcome is one step.            *)
(***************************************************************************)
Operation == "op"
SuccessKey == "op.success"
ErrorKey == "op.error"
DurationKey == "op.duration_ms"

\* The function returns, raises an Exception, or is left by an exception
\* that is no Exception (asyncio.CancelledError, KeyboardInterrupt).
Outcomes == {"return", "raise", "cancel"}

\* lines 205-206 (232-233): start_trace and the reading of the clock; then
\* the wrapped function runs.
trace_operation_enter(th, trace_id) ==
    /\ thread[th].pc = "idle"
    /\ trace_id \notin DOMAIN traces
    /\ traces' = Put(traces, trace_id,
                     [trace_id |-> trace_id, operation |-> Operation,
                      start_time |-> now, metadata |-> EmptyDict, spans |-> << >>])
    /\ thread' = [thread EXCEPT ![th] =
                     [IdleThread EXCEPT !.op = "trace_operation", !.pc = "func",
                                        !.key = trace_id, !.value = now]]
    /\ UNCHANGED <<counters, gauges, histograms, lock, recorded, report, tret>>
    /\ UNCHANGED <<RunnerVars, StoreVars>>

Span(duration_ms, status) ==
    [name |-> Operation, duration_ms |-> duration_ms, timestamp |-> now,
     metadata |-> status]

\* `except Exception as e:` catches the exceptions that are Exceptions
ExceptException(outcome) == outcome = "raise"

\* lines 208-224 (235-251): the try block after the function's outcome, the
\* except clause and the finally clause.
trace_operation_leave(th, outcome) ==
    /\ At(th, "trace_operation", "func")
    /\ LockFree
    /\ LET trace_id == thread[th].key
           duration_ms == (now - thread[th].value) * 1000
           spanned ==
               IF outcome = "return"
               THEN SpanAdded(traces, trace_id, Span(duration_ms, [status |-> "success"]))
               ELSE IF ExceptException(outcome)
               THEN SpanAdded(traces, trace_id,
                              Span(duration_ms, [status |-> "error", error |-> "e"]))
               ELSE traces
       IN  /\ traces' = TraceEnded(spanned, trace_id, now)
           /\ histograms' =
                  IF outcome = "return"
                  THEN Put(histograms, DurationKey,
                           Append(Get(histograms, DurationKey, << >>), duration_ms))
                  ELSE histograms
           /\ counters' =
                  IF outcome = "return"
                  THEN Put(counters, SuccessKey, Get(counters, SuccessKey, 0) + 1)
                  ELSE IF ExceptException(outcome)
                  THEN Put(counters, ErrorKey, Get(counters, ErrorKey, 0) + 1)
                  ELSE counters
           /\ tret' = [op |-> "trace_operation", trace_id |-> trace_id,
                       value |-> outcome, before |-> traces, at |-> now,
                       counters |-> counters, histograms |-> histograms]
    /\ thread' = Idle(th)
    /\ UNCHANGED <<gauges, lock, recorded, report>>
    /\ UNCHANGED <<RunnerVars, StoreVars>>

\* No call of the session service by the application yet.
NoCall == [op |-> "none"]
Logged(entries) == [entries |-> entries, overwritten |-> FALSE]
Overwritten == [entries |-> << >>, overwritten |-> TRUE]
NoLog == [s \in SessionIds |-> Logged(<< >>)]

Init ==
    /\ client \in {"none", Handle}
    /\ sub_agents \in {FlatTree, PairTree, DeepTree}
    /\ agentClient = [n \in Nodes |-> "none"]
    /\ agentContext = [n \in Nodes |-> FreshCtx]
    /\ sessions = << >>
    /\ task = [t \in Tasks |-> IdleTask]
    /\ running = "none"
    /\ ret = NoCall
    /\ log = NoLog
    /\ keys = << >>
    /\ now = 0
    /\ MetricsInit
    /\ TracerInit

(***************************************************************************)
(* Runner.run_async, up to its first yield: the message text, the session  *)
(* (get-or-create), the initialization of the agent tree and the progress  *)
(* event.  The generator is then suspended at the yield.                   *)
(***************************************************************************)
\* The backend calls the passes started so far can make: one per node.
Reserved ==
    Cardinality({t \in Tasks : task[t].pc # "idle"})
        * Cardinality(TreeNodes(sub_agents, RootAgent))

RunAsync(t, user, sid, message) ==
    /\ running = "none"
    /\ task[t].pc = "idle"
    /\ client # "none" =>
           Reserved + Cardinality(TreeNodes(sub_agents, RootAgent)) <= MaxBackendCalls
    /\ sessions' = get_session(sessions, AppName, user, sid)
    /\ keys' = KeyOrder(keys, sessions')
    /\ agentClient' = IF client # "none"
                      THEN initialize(agentClient, sub_agents, RootAgent, client)
                      ELSE agentClient
    /\ task' = [task EXCEPT ![t] =
                   [IdleTask EXCEPT
                       !.pc = "progress", !.user_id = user,
                       !.session_id = sid, !.message_text = message,
                       !.events = <<RunnerEvent(<<"Processing with ", RootAgent, "...">>,
                                                RootAgent, FALSE, EmptyDict)>>]]
    /\ UNCHANGED <<client, sub_agents, agentContext, running, ret, log, now, MetricsVars, TracerVars>>

\* Agent.run, lines 53-56, for a node whose client is bound:
\* self.context = context or {}; the call then runs on to the await of the
\* backend call (pc "llm").
Bind(ctxs, store, n, context) ==
    [ctxs EXCEPT ![n] = ContextOrEmpty(store, context)]

Push(stack, store, n, prompt, context) ==
    Append(stack, Frame(n, prompt, context, ContextOrEmpty(store, context)))

\* The final event of run_async's except branch.
ErrorEvent(msg) ==
    RunnerEvent(<<"Error: ">> \o msg, RootAgent, TRUE, [error |-> msg])

\* The consumer asks for the next event: the generator resumes after the
\* progress event and runs the root agent, or builds the mock response.
ResumeRun(t) ==
    /\ running = "none"
    /\ task[t].pc = "progress"
    /\ IF client # "none"
       THEN IF agentClient[RootAgent] # "none"
            THEN LET ctx == SessionCtx(AppName, task[t].user_id, task[t].session_id)
                 IN  /\ agentContext' = Bind(agentContext, sessions, RootAgent, ctx)
                     /\ task' = [task EXCEPT
                            ![t].pc = "agent",
                            ![t].stack = Push(@, sessions, RootAgent,
                                              task[t].message_text, ctx)]
                     /\ running' = t
            ELSE \* RuntimeError raised by Agent.run, caught by run_async
                 /\ task' = [task EXCEPT
                        ![t].pc = "final",
                        ![t].events = Append(@, ErrorEvent(NotInitialized(RootAgent)))]
                 /\ running' = "none"
                 /\ UNCHANGED agentContext
       ELSE /\ task' = [task EXCEPT
                   ![t].pc = "persist",
                   ![t].response_text = MockResponse(RootAgent, task[t].message_text)]
            /\ running' = t
            /\ UNCHANGED agentContext
    /\ UNCHANGED <<client, sub_agents, agentClient, sessions, ret, log, keys, now,
                 MetricsVars, TracerVars>>

\* Agent._execute_llm up to `await self.client.aio.models.generate_content`:
\* the task suspends until the backend answers.
AwaitBackend(t) ==
    /\ InRun(t, "llm")
    /\ task' = [SetTop(t, [Top(t) EXCEPT !.pc = "wait", !.calls = @ + 1])
                   EXCEPT ![t].backendCalls = @ + 1]
    /\ running' = "none"
    /\ UNCHANGED <<client, sub_agents, agentClient, agentContext, sessions, ret, log, keys, now,
                 MetricsVars, TracerVars>>


\* The first function call among the parts of a reply, 0 if there is none
\* (the loop of lines 194-199).
FirstCall(parts) ==
    LET calls == {i \in DOMAIN parts : parts[i].function_call # "none"}
    IN  IF calls = {} THEN 0 ELSE CHOOSE i \in calls : \A j \in calls : i <= j

\* (mutant) the callback is invoked on the way out of a failed run
CaughtThenCallback(frame, msg) ==
    [frame EXCEPT !.pc = "return", !.result = Error(frame.node, msg),
                  !.callbacks = Append(@, [ctx |-> [agent |-> frame.node, response |-> msg],
                                           outcome |-> "none"])]

\* Agent.run's `except Exception`: the frame ends with an error result.
Caught(frame, msg) ==
    [frame EXCEPT !.pc = "return", !.result = Error(frame.node, msg)]

\* The frame after the backend's reply (lines 189-204).
AfterReply(frame, parts) ==
    IF FirstCall(parts) # 0
    THEN [frame EXCEPT !.pc = "tool", !.parts = parts,
                       !.function_call = parts[FirstCall(parts)].function_call,
                       !.args = parts[FirstCall(parts)].args]
    ELSE [frame EXCEPT !.pc = "subs", !.parts = parts, !.response = parts[1].text]

\* The backend call returns, raises or is cancelled; the task resumes.
BackendResponds(t, n, reply) ==
    /\ running = "none"
    /\ task[t].pc = "agent"
    /\ Top(t).pc = "wait"
    /\ Top(t).node = n
    /\ IF reply.kind = "cancel"
       THEN \* CancelledError is no Exception: neither Agent.run's nor
            \* run_async's except catches it.
            /\ task' = [task EXCEPT ![t].pc = "cancelled", ![t].stack = << >>]
            /\ running' = "none"
       ELSE /\ task' = SetTop(t, IF reply.kind = "fail"
                                 THEN Caught(Top(t), BackendError)
                                 ELSE AfterReply(Top(t), reply.parts))
            /\ running' = t
    /\ UNCHANGED <<client, sub_agents, agentClient, agentContext, sessions, ret, log, keys, now,
                 MetricsVars, TracerVars>>

\* (mutant) the node's first tool serves every request
FindToolAny(n, function_name) ==
    IF tools[n] = << >> THEN 0 ELSE 1

\* The tool of the node that has the requested name, 0 if none has
\* (the loop of lines 212-219).
FindTool(n, function_name) ==
    LET hits == {i \in DOMAIN tools[n] : tools[n][i] = function_name}
    IN  IF hits = {} THEN 0 ELSE CHOOSE i \in hits : \A j \in hits : i <= j

\* (mutant) the tool's result goes back to the backend for a second round
AfterToolRoundTrip(frame, outcome) ==
    LET i == FindTool(frame.node, frame.function_call)
    IN  IF i = 0
        THEN [frame EXCEPT !.pc = "llm"]
        ELSE [frame EXCEPT !.pc = "llm",
                           !.executed = Append(@, [name |-> tools[frame.node][i],
                                                   args |-> frame.args])]

\* (mutant) a request for an unknown tool raises
AfterToolOrRaise(frame, outcome) ==
    LET i == FindTool(frame.node, frame.function_call)
    IN  IF i = 0 THEN Caught(frame, ToolNotFound(frame.function_call))
        ELSE [frame EXCEPT !.pc = "subs",
                           !.executed = Append(@, [name |-> tools[frame.node][i],
                                                   args |-> frame.args]),
                           !.response = JsonDumps(ToolResult(tools[frame.node][i],
                                                             frame.args))]

\* tool.execute(**args), as the frame's record of the tools it has executed
Executed(frame, i) ==
    Append(frame.executed, [name |-> tools[frame.node][i], args |-> frame.args])

\* Agent._execute_tool_call; the tool returns ("ok") or raises ("raise").
AfterTool(frame, outcome) ==
    LET i == FindTool(frame.node, frame.function_call)
    IN  IF i = 0
        THEN [frame EXCEPT !.pc = "subs",
                           !.response = ToolNotFound(frame.function_call)]
        ELSE IF outcome = "ok"
        THEN [frame EXCEPT !.pc = "subs",
                           !.executed = Executed(frame, i),
                           !.response = JsonDumps(ToolResult(tools[frame.node][i],
                                                             frame.args))]
        ELSE [Caught(frame, ToolError) EXCEPT !.executed = Executed(frame, i)]

ExecuteToolCall(t, outcome) ==
    /\ InRun(t, "tool")
    /\ FindTool(Top(t).node, Top(t).function_call) = 0 => outcome = "ok"
    /\ task' = SetTop(t, AfterTool(Top(t), outcome))
    /\ UNCHANGED <<client, sub_agents, agentClient, agentContext, sessions, running, ret, log, keys, now,
                 MetricsVars, TracerVars>>

(***************************************************************************)
(* Agent._execute_sub_agents                                               *)
(***************************************************************************)
\* results, as line 225 sets it before the loop.
ResultsOf(frame) ==
    IF frame.results = << >>
    THEN <<InitialLabel(frame.node) \o frame.response>>
    ELSE frame.results

\* (mutant) the loop walks the list from its end
NextSubAgentReversed(frame, subs) ==
    subs[frame.node][Len(subs[frame.node]) - Len(frame.subRuns)]

\* (mutant) each sub-agent is fed the result of the sibling before it
SubAgentPromptChained(frame) ==
    IF frame.subRuns = << >> THEN frame.response
    ELSE ResultGet(frame.subRuns[Len(frame.subRuns)].result, "response", << >>)

\* The sub-agent the loop runs next, and what it is run with (lines 227-231).
NextSubAgent(frame, subs) == subs[frame.node][Len(frame.subRuns) + 1]
SubAgentPrompt(frame) == frame.response
SubAgentContext(ctxs, frame) == ctxs[frame.node]

\* One iteration of the loop, up to the sub-agent's own backend await.
ExecuteSubAgent(t) ==
    /\ InRun(t, "subs")
    /\ Len(Top(t).subRuns) < Len(sub_agents[Top(t).node])
    /\ LET frame == [Top(t) EXCEPT !.results = ResultsOf(Top(t))]
           sub == NextSubAgent(frame, sub_agents)
           ctx == SubAgentContext(agentContext, frame)
       IN  IF agentClient[sub] # "none"
           THEN /\ agentContext' = Bind(agentContext, sessions, sub, ctx)
                /\ task' = [task EXCEPT ![t].stack =
                               Push([@ EXCEPT ![Len(@)] = frame], sessions, sub,
                                    SubAgentPrompt(frame), ctx)]
           ELSE \* the sub-agent raises RuntimeError; the parent's except has it
                /\ task' = SetTop(t, Caught(frame, NotInitialized(sub)))
                /\ UNCHANGED agentContext
    /\ UNCHANGED <<client, sub_agents, agentClient, sessions, running, ret, log, keys, now,
                 MetricsVars, TracerVars>>

\* The segment line 233 appends for a sub-agent's result.
Segment(name, result) == SubLabel(name) \o ResultGet(result, "response", << >>)

\* Lines 72-73 and 235: the loop is over (or the node has no sub-agents).
FinishSubAgents(t) ==
    /\ InRun(t, "subs")
    /\ Len(Top(t).subRuns) = Len(sub_agents[Top(t).node])
    /\ task' = SetTop(t, [Top(t) EXCEPT
                   !.pc = "callback",
                   !.response = IF sub_agents[Top(t).node] = << >>
                                THEN @ ELSE JoinLines(Top(t).results)])
    /\ UNCHANGED <<client, sub_agents, agentClient, agentContext, sessions, running, ret, log, keys, now,
                 MetricsVars, TracerVars>>

\* CallbackContext(agent=self, response=response)
CallbackContext(agent, response) == [agent |-> agent, response |-> response]

\* What the callback returns: None, a replacement text, or the empty text.
CallbackResult(outcome) ==
    IF outcome = "replace" THEN [none |-> FALSE, text |-> CallbackText]
    ELSE IF outcome = "empty" THEN [none |-> FALSE, text |-> << >>]
    ELSE [none |-> TRUE, text |-> << >>]

\* `if callback_result:` a non-empty string is true; None and "" are false.
Truthy(callback_result) == ~callback_result.none /\ callback_result.text # << >>

\* Lines 76-87: the callback returns nothing ("none"), returns a response
\* ("replace"), returns the empty string ("empty") or raises ("raise"); then
\* the result dict.
AfterCallback(frame, outcome) ==
    IF ~HasCallback(frame.node)
    THEN [frame EXCEPT !.pc = "return", !.result = Response(frame.node, frame.response)]
    ELSE LET called == [frame EXCEPT !.callbacks =
                           Append(@, [ctx |-> CallbackContext(frame.node, frame.response),
                                      outcome |-> outcome])]
         IN  IF outcome = "raise" THEN Caught(called, CallbackError)
             ELSE IF Truthy(CallbackResult(outcome))
             THEN [called EXCEPT !.pc = "return",
                                 !.response = CallbackResult(outcome).text,
                                 !.result = Response(frame.node,
                                                     CallbackResult(outcome).text)]
             ELSE [called EXCEPT !.pc = "return",
                                 !.result = Response(frame.node, frame.response)]

AfterAgentCallback(t, outcome) ==
    /\ InRun(t, "callback")
    /\ ~HasCallback(Top(t).node) => outcome = "none"
    /\ task' = SetTop(t, AfterCallback(Top(t), outcome))
    /\ UNCHANGED <<client, sub_agents, agentClient, agentContext, sessions, running, ret, log, keys, now,
                 MetricsVars, TracerVars>>

\* (mutant) the error of a sub-agent ends the parent's run
CollectOrAbort(parent, child) ==
    IF child.result.has = "error"
    THEN [parent EXCEPT !.pc = "return",
                        !.result = Error(parent.node, child.result.value)]
    ELSE [parent EXCEPT
        !.results = Append(@, SubLabel(child.node) \o child.result.value),
        !.subRuns = Append(@, [name |-> child.node, prompt |-> child.prompt,
                               context |-> child.context, result |-> child.result])]

\* What the parent's loop does with the result of a sub-agent (lines 232-233).
Collect(parent, child) ==
    [parent EXCEPT
        !.results = Append(@, Segment(child.node, child.result)),
        !.subRuns = Append(@, [name |-> child.node, prompt |-> child.prompt,
                               context |-> child.context, result |-> child.result])]

\* Agent.run returns its result dict to its caller: the parent's loop or the
\* Runner (line 110: result.get("response", "No response")).
ReturnFromRun(t) ==
    /\ InRun(t, "return")
    /\ LET frame == Top(t)
           rest == SubSeq(task[t].stack, 1, Len(task[t].stack) - 1)
       IN  IF rest # << >>
           THEN task' = [task EXCEPT ![t].stack =
                            [rest EXCEPT ![Len(rest)] = Collect(@, frame)]]
           ELSE task' = [task EXCEPT
                    ![t].stack = << >>,
                    ![t].result = frame.result,
                    ![t].rootRun = frame.subRuns,
                    ![t].pc = IF task[t].direct = "none" THEN "persist" ELSE "returned",
                    ![t].response_text =
                        IF task[t].direct = "none"
                        THEN ResultGet(frame.result, "response", <<"No response">>)
                        ELSE << >>]
    /\ UNCHANGED <<client, sub_agents, agentClient, agentContext, sessions, running, ret, log, keys, now,
                 MetricsVars, TracerVars>>

(***************************************************************************)
(* Runner.run_async, lines 115-141: the two add_message calls and the      *)
(* final event.  The generator is suspended at the yield.                  *)
(***************************************************************************)
FinalEvent(text, sid) ==
    RunnerEvent(text, RootAgent, TRUE, [session_id |-> sid])

\* (mutant) the outbound turn stored before the inbound one
PersistedOutboundFirst(store, user, sid, message_text, response_text) ==
    add_message(add_message(store, AppName, user, sid, "assistant", response_text),
                AppName, user, sid, "user", message_text)

\* (mutant) the two entries are stored in a session made anew
PersistedAnew(store, user, sid, message_text, response_text) ==
    add_message(add_message(create_session(store, AppName, user, sid, EmptyDict),
                            AppName, user, sid, "user", message_text),
                AppName, user, sid, "assistant", response_text)

Persisted(store, user, sid, message_text, response_text) ==
    add_message(add_message(store, AppName, user, sid, "user", message_text),
                AppName, user, sid, "assistant", response_text)

Persist(t) ==
    /\ running = t
    /\ task[t].pc = "persist"
    /\ sessions' = Persisted(sessions, task[t].user_id, task[t].session_id,
                             task[t].message_text, task[t].response_text)
    /\ keys' = KeyOrder(keys, sessions')
    /\ task' = [task EXCEPT
           ![t].pc = "final",
           ![t].events = Append(@, FinalEvent(task[t].response_text, task[t].session_id))]
    /\ running' = "none"
    /\ UNCHANGED <<client, sub_agents, agentClient, agentContext, ret, log, now, MetricsVars, TracerVars>>

\* The consumer asks for the next event after the final one: the generator
\* returns and the stream ends.
EndOfStream(t) ==
    /\ running = "none"
    /\ task[t].pc = "final"
    /\ task' = [task EXCEPT ![t].pc = "done"]
    /\ UNCHANGED <<client, sub_agents, agentClient, agentContext, sessions, running, ret, log, keys, now,
                 MetricsVars, TracerVars>>

(***************************************************************************)
(* Callers other than the Runner                                           *)
(***************************************************************************)
\* The application creates a session of its own, with metadata, before any
\* pass has used the key (as demo.py and the tests do before they run).
CreateSession(user, sid, metadata) ==
    /\ running = "none"
    /\ ~HasSession(sessions, AppName, user, sid)
    /\ sessions' = create_session(sessions, AppName, user, sid, metadata)
    /\ keys' = KeyOrder(keys, sessions')
    /\ UNCHANGED <<client, sub_agents, agentClient, agentContext, task, running, ret, log, now, MetricsVars, TracerVars>>

(***************************************************************************)
(* Agent.initialize and Agent.run called by the application itself, with no *)
(* Runner: any node may be initialized, and run may be called on any node,  *)
(* initialized or not.                                                      *)
(***************************************************************************)
Initialize(n, h) ==
    /\ running = "none"
    /\ agentClient[n] = "none"
    /\ agentClient' = initialize(agentClient, sub_agents, n, h)
    /\ UNCHANGED <<client, sub_agents, agentContext, sessions, task, running, ret, log, keys, now,
                 MetricsVars, TracerVars>>

\* The backend calls the direct calls started so far can make.
DirectReserved ==
    LET RECURSIVE Sum(_)
        Sum(ts) == IF ts = {} THEN 0
                   ELSE LET t == CHOOSE x \in ts : TRUE
                        IN  Cardinality(TreeNodes(sub_agents, task[t].direct))
                                + Sum(ts \ {t})
    IN  Sum({t \in Tasks : task[t].pc \notin {"idle", "raised"}})

\* (mutant) the missing handle is reported as an error result
RaisedAsResult(n) ==
    [IdleTask EXCEPT !.pc = "returned", !.direct = n,
                     !.result = Error(n, NotInitialized(n))]

\* Lines 53-54: `if not self.client: raise RuntimeError(...)`, outside the
\* try: the caller gets the exception and no result.
Raised(n) ==
    [IdleTask EXCEPT !.pc = "raised", !.direct = n, !.raised = NotInitialized(n)]

\* Agent.context after the entry of run (lines 53-56).
BoundAtEntry(ctxs, clients, store, n, context) ==
    IF clients[n] = "none" THEN ctxs ELSE Bind(ctxs, store, n, context)

RunDirect(t, n, prompt, context) ==
    /\ running = "none"
    /\ task[t].pc = "idle"
    /\ agentClient[n] # "none" =>
           DirectReserved + Cardinality(TreeNodes(sub_agents, n)) <= MaxBackendCalls
    /\ agentContext' = BoundAtEntry(agentContext, agentClient, sessions, n, context)
    /\ IF agentClient[n] = "none"
       THEN /\ task' = [task EXCEPT ![t] = Raised(n)]
            /\ running' = "none"
       ELSE /\ task' = [task EXCEPT ![t] =
                   [IdleTask EXCEPT !.pc = "agent", !.direct = n,
                                    !.stack = Push(<< >>, sessions, n, prompt, context)]]
            /\ running' = t
    /\ UNCHANGED <<client, sub_agents, agentClient, sessions, ret, log, keys, now,
                 MetricsVars, TracerVars>>

DirectInit ==
    /\ client = "none"
    /\ sub_agents \in {PairTree, DeepTree}
    /\ agentClient = [n \in Nodes |-> "none"]
    /\ agentContext = [n \in Nodes |-> FreshCtx]
    /\ sessions = << >>
    /\ task = [t \in Tasks |-> IdleTask]
    /\ running = "none"
    /\ ret = NoCall
    /\ log = NoLog
    /\ keys = << >>
    /\ now = 0
    /\ MetricsInit
    /\ TracerInit

DirectNext ==
    \/ \E n \in Nodes : Initialize(n, Handle)
    \/ \E t \in Tasks, n \in Nodes, c \in {FreshCtx} \cup {CallerCtx(x) : x \in Tasks} :
           RunDirect(t, n, <<"x">>, c)
    \/ \E t \in Tasks : AwaitBackend(t)
    \/ \E t \in Tasks, n \in Nodes : \E r \in BackendReplies(n) : BackendResponds(t, n, r)
    \/ \E t \in Tasks, o \in {"ok", "raise"} : ExecuteToolCall(t, o)
    \/ \E t \in Tasks : ExecuteSubAgent(t)
    \/ \E t \in Tasks : FinishSubAgents(t)
    \/ \E t \in Tasks, o \in {"none", "replace", "empty", "raise"} :
           AfterAgentCallback(t, o)
    \/ \E t \in Tasks : ReturnFromRun(t)

DirectSpec == DirectInit /\ [][DirectNext]_vars

(***************************************************************************)
(* The session service called by the application itself: every operation,  *)
(* on every key, in any order.  ret keeps the store as it was before the   *)
(* call, the call and its return value (or that it raised).                *)
(***************************************************************************)
StoreUser == "u1"
Contents == {<<"m1">>, <<"m2">>}
Metadata == {EmptyDict, [k |-> "v"]}
\* the `updates` of update_session: any fields of the session record
Updates == {[metadata |-> [k |-> "v"], messages |-> << >>]}
ContextUpdates == {[k |-> "w"]}
Limits == {None} \cup {Limit(k) : k \in 0..MaxLimit}

Call(op, sid, args, value) ==
    [op |-> op, sid |-> sid, args |-> args, value |-> value, raised |-> FALSE,
     before |-> sessions]

Stored(store, sid) == store[AppName][StoreUser][sid]
Has(store, sid) == HasSession(store, AppName, StoreUser, sid)

CallCreateSession(sid, metadata) ==
    /\ sessions' = create_session(sessions, AppName, StoreUser, sid, metadata)
    /\ keys' = KeyOrder(keys, sessions')
    /\ ret' = Call("create_session", sid, metadata, Stored(sessions', sid))
    /\ log' = [log EXCEPT ![sid] = Logged(<< >>)]
    /\ UNCHANGED <<RunnerVars, now, MetricsVars, TracerVars>>

CallGetSession(sid) ==
    /\ sessions' = get_session(sessions, AppName, StoreUser, sid)
    /\ keys' = KeyOrder(keys, sessions')
    /\ ret' = Call("get_session", sid, << >>, Stored(sessions', sid))
    /\ log' = IF Has(sessions, sid) THEN log ELSE [log EXCEPT ![sid] = Logged(<< >>)]
    /\ UNCHANGED <<RunnerVars, now, MetricsVars, TracerVars>>

CallUpdateSession(sid, updates) ==
    /\ sessions' = update_session(sessions, AppName, StoreUser, sid, updates)
    /\ keys' = KeyOrder(keys, sessions')
    /\ ret' = IF Has(sessions, sid)
              THEN Call("update_session", sid, updates, Stored(sessions', sid))
              ELSE [Call("update_session", sid, updates, << >>) EXCEPT !.raised = TRUE]
    /\ log' = IF Has(sessions, sid) /\ "messages" \in DOMAIN updates
              THEN [log EXCEPT ![sid] = Overwritten] ELSE log
    /\ UNCHANGED <<RunnerVars, now, MetricsVars, TracerVars>>

CallAddMessage(sid, role, content) ==
    /\ Len(MessagesOf(sessions, AppName, StoreUser, sid)) < MaxMessages
    /\ sessions' = add_message(sessions, AppName, StoreUser, sid, role, content)
    /\ keys' = KeyOrder(keys, sessions')
    /\ LET message == [role |-> role, content |-> content, metadata |-> EmptyDict]
       IN  /\ ret' = Call("add_message", sid, <<role, content>>, message)
           /\ log' = [log EXCEPT ![sid] =
                         IF ~Has(sessions, sid) THEN Logged(<<message>>)
                         ELSE IF @.overwritten THEN @
                         ELSE Logged(Append(@.entries, message))]
    /\ UNCHANGED <<RunnerVars, now, MetricsVars, TracerVars>>

CallGetMessages(sid, limit) ==
    /\ sessions' = get_session(sessions, AppName, StoreUser, sid)
    /\ keys' = KeyOrder(keys, sessions')
    /\ ret' = Call("get_messages", sid, limit,
                   get_messages(sessions, AppName, StoreUser, sid, limit))
    /\ log' = IF Has(sessions, sid) THEN log ELSE [log EXCEPT ![sid] = Logged(<< >>)]
    /\ UNCHANGED <<RunnerVars, now, MetricsVars, TracerVars>>

CallDeleteSession(sid) ==
    /\ sessions' = delete_session(sessions, AppName, StoreUser, sid)
    /\ keys' = KeyOrder(keys, sessions')
    /\ ret' = Call("delete_session", sid, << >>, Has(sessions, sid))
    /\ log' = [log EXCEPT ![sid] = Logged(<< >>)]
    /\ UNCHANGED <<RunnerVars, now, MetricsVars, TracerVars>>

CallListSessions ==
    /\ sessions' = Partition(sessions, AppName, StoreUser)
    /\ keys' = KeyOrder(keys, sessions')
    /\ ret' = Call("list_sessions", "", << >>, list_sessions(sessions, keys, AppName, StoreUser))
    /\ UNCHANGED log
    /\ UNCHANGED <<RunnerVars, now, MetricsVars, TracerVars>>

CallUpdateContext(sid, context_updates) ==
    /\ sessions' = update_context(sessions, AppName, StoreUser, sid, context_updates)
    /\ keys' = KeyOrder(keys, sessions')
    /\ ret' = Call("update_context", sid, context_updates, Stored(sessions', sid).context)
    /\ log' = IF Has(sessions, sid) THEN log ELSE [log EXCEPT ![sid] = Logged(<< >>)]
    /\ UNCHANGED <<RunnerVars, now, MetricsVars, TracerVars>>

CallGetContext(sid) ==
    /\ sessions' = get_session(sessions, AppName, StoreUser, sid)
    /\ keys' = KeyOrder(keys, sessions')
    /\ ret' = Call("get_context", sid, << >>,
                   get_context(sessions, AppName, StoreUser, sid))
    /\ log' = IF Has(sessions, sid) THEN log ELSE [log EXCEPT ![sid] = Logged(<< >>)]
    /\ UNCHANGED <<RunnerVars, now, MetricsVars, TracerVars>>

StoreInit ==
    /\ client = "none"
    /\ sub_agents = FlatTree
    /\ agentClient = [n \in Nodes |-> "none"]
    /\ agentContext = [n \in Nodes |-> FreshCtx]
    /\ sessions = << >>
    /\ task = [t \in Tasks |-> IdleTask]
    /\ running = "none"
    /\ ret = NoCall
    /\ log = NoLog
    /\ keys = << >>
    /\ now = 0
    /\ MetricsInit
    /\ TracerInit

StoreNext ==
    \/ \E s \in SessionIds, m \in Metadata : CallCreateSession(s, m)
    \/ \E s \in SessionIds : CallGetSession(s)
    \/ \E s \in SessionIds, u \in Updates : CallUpdateSession(s, u)
    \/ \E s \in SessionIds, c \in Contents : CallAddMessage(s, "user", c)
    \/ \E s \in SessionIds, k \in Limits : CallGetMessages(s, k)
    \/ \E s \in SessionIds : CallDeleteSession(s)
    \/ CallListSessions
    \/ \E s \in SessionIds, c \in ContextUpdates : CallUpdateContext(s, c)
    \/ \E s \in SessionIds : CallGetContext(s)

StoreSpec == StoreInit /\ [][StoreNext]_vars

(***************************************************************************)
(* The MetricsCollector called by two threads: every method, at any time.  *)
(***************************************************************************)
MetricsNext ==
    \/ \E th \in Threads : increment(th, "x", 1)
    \/ \E th \in Threads : gauge(th, "g", 1)
    \/ \E th \in Threads : histogram(th, "y", 1)
    \/ \E th \in Threads : get_metrics(th)
    \/ \E th \in Threads : reset(th)

MetricsSpec == StoreInit /\ [][MetricsNext]_vars

\* The histograms: observations of several values, on two keys.
Observations == 1..MaxObservations

HistogramNext ==
    \/ \E th \in Threads, v \in Observations : histogram(th, "y", v)
    \/ \E th \in Threads : histogram(th, "z", 1)
    \/ \E th \in Threads : get_metrics(th)
    \/ \E th \in Threads : reset(th)

HistogramSpec == StoreInit /\ [][HistogramNext]_vars

(***************************************************************************)
(* A counter between two resets: increments by any integer the caller      *)
(* gives (value: int), and get_metrics.                                    *)
(***************************************************************************)
Increments == {1, 0 - 1}

CounterNext ==
    \/ \E th \in Threads, value \in Increments : increment(th, "x", value)
    \/ \E th \in Threads : get_metrics(th)

CounterSpec == StoreInit /\ [][CounterNext]_vars


(***************************************************************************)
(* The clock.  Two calls may read the same value: datetime.now() has the   *)
(* resolution of the system clock at best, and no call waits for it to     *)
(* advance.  The Runner passes and the calls of StoreSpec never read a     *)
(* stamp, so their specifications take the behaviours of one reading.      *)
(***************************************************************************)
Tick ==
    /\ now < MaxClock
    /\ now' = now + 1
    /\ UNCHANGED <<RunnerVars, sessions, ret, log, keys, MetricsVars, TracerVars>>

(***************************************************************************)
(* The session service while the clock runs.  The store holds a session of *)
(* another user, created by the application before the calls start.        *)
(***************************************************************************)
ListInit ==
    /\ client = "none"
    /\ sub_agents = FlatTree
    /\ agentClient = [n \in Nodes |-> "none"]
    /\ agentContext = [n \in Nodes |-> FreshCtx]
    /\ now = 0
    /\ sessions = create_session(<< >>, AppName, OtherUser, "s1", EmptyDict)
    /\ keys = KeyOrder(<< >>, sessions)
    /\ task = [t \in Tasks |-> IdleTask]
    /\ running = "none"
    /\ ret = NoCall
    /\ log = NoLog
    /\ MetricsInit
    /\ TracerInit

ListNext ==
    \/ Tick
    \/ \E s \in SessionIds : CallCreateSession(s, EmptyDict)
    \/ \E s \in SessionIds : CallGetSession(s)
    \/ \E s \in SessionIds, u \in Updates : CallUpdateSession(s, u)
    \/ \E s \in SessionIds : CallAddMessage(s, "user", <<"m1">>)
    \/ \E s \in SessionIds : CallDeleteSession(s)
    \/ CallListSessions
    \/ \E s \in SessionIds, c \in ContextUpdates : CallUpdateContext(s, c)

ListSpec == ListInit /\ [][ListNext]_vars

Next ==
    \/ \E t \in Tasks, u \in Users, s \in SessionIds, m \in Messages : RunAsync(t, u, s, m)
    \/ \E t \in Tasks : ResumeRun(t)
    \/ \E t \in Tasks : AwaitBackend(t)
    \/ \E t \in Tasks, n \in Nodes : \E r \in BackendReplies(n) : BackendResponds(t, n, r)
    \/ \E t \in Tasks, o \in {"ok", "raise"} : ExecuteToolCall(t, o)
    \/ \E t \in Tasks : ExecuteSubAgent(t)
    \/ \E t \in Tasks : FinishSubAgents(t)
    \/ \E t \in Tasks, o \in {"none", "replace", "empty", "raise"} :
           AfterAgentCallback(t, o)
    \/ \E t \in Tasks : ReturnFromRun(t)
    \/ \E t \in Tasks : Persist(t)
    \/ \E t \in Tasks : EndOfStream(t)
    \/ \E u \in Users, s \in SessionIds : CreateSession(u, s, [k |-> "v"])

Spec == Init /\ [][Next]_vars

(***************************************************************************)
(* The session service called for the context of its sessions.             *)
(***************************************************************************)
ContextCalls == {[k |-> "w"], [k |-> "x"], [j |-> "w"]}

ContextNext ==
    \/ \E s \in SessionIds, m \in Metadata : CallCreateSession(s, m)
    \/ \E s \in SessionIds : CallDeleteSession(s)
    \/ \E s \in SessionIds, c \in ContextCalls : CallUpdateContext(s, c)
    \/ \E s \in SessionIds : CallGetContext(s)

ContextSpec == StoreInit /\ [][ContextNext]_vars

(***************************************************************************)
(* The session service with sessions under other keys.  Before the calls   *)
(* start the application has made a session with the id s1 for another     *)
(* user and one in another application, each with metadata and a message.  *)
(***************************************************************************)
OtherApp == "app2"

WithSession(store, app, user, sid) ==
    add_message(create_session(store, app, user, sid, [k |-> "v"]),
                app, user, sid, "user", <<"m0">>)

FrameInit ==
    /\ client = "none"
    /\ sub_agents = FlatTree
    /\ agentClient = [n \in Nodes |-> "none"]
    /\ agentContext = [n \in Nodes |-> FreshCtx]
    /\ task = [t \in Tasks |-> IdleTask]
    /\ running = "none"
    /\ ret = NoCall
    /\ log = NoLog
    /\ now = 0
    /\ sessions = WithSession(WithSession(<< >>, AppName, OtherUser, "s1"),
                              OtherApp, StoreUser, "s1")
    /\ keys = <<<<AppName, OtherUser, "s1">>, <<OtherApp, StoreUser, "s1">>>>
    /\ MetricsInit
    /\ TracerInit

FrameNext ==
    \/ \E s \in SessionIds, m \in Metadata : CallCreateSession(s, m)
    \/ \E s \in SessionIds : CallAddMessage(s, "user", <<"m1">>)
    \/ \E s \in SessionIds, c \in ContextCalls : CallUpdateContext(s, c)
    \/ \E s \in SessionIds : CallDeleteSession(s)

FrameSpec == FrameInit /\ [][FrameNext]_vars


(***************************************************************************)
(* The tracer while the clock runs.                                        *)
(***************************************************************************)
TracerNext ==
    \/ Tick
    \/ \E trace_id \in TraceIds : start_trace(trace_id, "op")
    \/ \E trace_id \in TraceIds, name \in SpanNames : add_span(trace_id, name, 1)
    \/ \E trace_id \in TraceIds : end_trace(trace_id)
    \/ \E trace_id \in TraceIds : get_trace(trace_id)

TracerSpec == StoreInit /\ [][TracerNext]_vars

(***************************************************************************)
(* Calls of a function wrapped by trace_operation, two at a time.          *)
(***************************************************************************)
CallIds == {"t1", "t2", "t3"}

WrappedNext ==
    \/ Tick
    \/ \E th \in Threads, trace_id \in CallIds : trace_operation_enter(th, trace_id)
    \/ \E th \in Threads, outcome \in Outcomes : trace_operation_leave(th, outcome)

WrappedSpec == StoreInit /\ [][WrappedNext]_vars



(***************************************************************************)
(* Runner passes for several users: the store then holds more than one     *)
(* user partition.  The Runner has no backend handle (mock mode): a pass   *)
(* is suspended at its two yields, and what it does to the store is what   *)
(* a pass with a backend does.                                             *)
(***************************************************************************)
AllUsers == Users \cup {OtherUser}

StatsInit ==
    /\ Init
    /\ client = "none"
    /\ sub_agents = FlatTree

StatsNext ==
    \/ \E t \in Tasks, u \in AllUsers, s \in SessionIds, m \in Messages : RunAsync(t, u, s, m)
    \/ \E t \in Tasks : ResumeRun(t)
    \/ \E t \in Tasks : Persist(t)
    \/ \E t \in Tasks : EndOfStream(t)
    \/ \E u \in AllUsers, s \in SessionIds : CreateSession(u, s, [k |-> "v"])

StatsSpec == StatsInit /\ [][StatsNext]_vars

(***************************************************************************)
(* Properties                                                              *)
(***************************************************************************)
StreamEnded(t) == task[t].pc \in {"done", "cancelled"}
Emitted(t) == task[t].pc \in {"final", "done"}
LastEvent(t) == task[t].events[Len(task[t].events)]
History(t) == MessagesOf(sessions, AppName, task[t].user_id, task[t].session_id)
Entry(role, content) == [role |-> role, content |-> content, metadata |-> EmptyDict]

\* text has sub as a contiguous part
Contains(text, sub) ==
    \E i \in 1..(Len(text) - Len(sub) + 1) : SubSeq(text, i, i + Len(sub) - 1) = sub

\* The labels of a concatenated response, in the order they occur in it.
RECURSIVE LabelsFrom(_, _)
LabelsFrom(text, i) ==
    IF i + 2 > Len(text) THEN << >>
    ELSE IF text[i] = "[" /\ text[i + 2] \in {" Initial Response]", " Response]"}
    THEN <<[name |-> text[i + 1], own |-> text[i + 2] = " Initial Response]"]>>
             \o LabelsFrom(text, i + 1)
    ELSE LabelsFrom(text, i + 1)

\* The labels a node's concatenation puts into a text itself: its own label
\* and those of its sub-agents (a sub-agent's response may hold the labels of
\* that sub-agent's own concatenation).
LabelsOf(text, n) ==
    LET Direct(l) == IF l.own THEN l.name = n ELSE l.name \in Range(sub_agents[n])
    IN  SelectSeq(LabelsFrom(text, 1), Direct)

ExpectedLabels(n) ==
    <<[name |-> n, own |-> TRUE]>>
        \o [i \in DOMAIN sub_agents[n] |-> [name |-> sub_agents[n][i], own |-> FALSE]]

\* C1: every stream of run_async that has ended consists of exactly one
\* non-final progress event followed by exactly one final event, and while it
\* runs it never holds a final event that is not its last event.
C1_OneFinalEvent ==
    \A t \in Tasks :
        /\ \A i \in DOMAIN task[t].events :
               task[t].events[i].is_final => i = Len(task[t].events)
        /\ StreamEnded(t) =>
               /\ Len(task[t].events) = 2
               /\ ~task[t].events[1].is_final
               /\ task[t].events[2].is_final

\* C2: the step of a pass that emits its final event is the step that appends
\* to the session's history exactly the two entries (user: the inbound text,
\* assistant: the text of that final event), in this order; no other step of a
\* pass changes a history.
C2_TwoEntriesInOrder ==
    [][\A t \in Tasks :
          LET before == History(t)
              after == MessagesOf(sessions', AppName, task[t].user_id, task[t].session_id)
          IN  IF task[t].pc = "persist" /\ task'[t].pc = "final"
              THEN /\ task'[t].events[Len(task'[t].events)].is_final
                   /\ after = before \o
                        <<Entry("user", task[t].message_text),
                          Entry("assistant", task'[t].events[Len(task'[t].events)].text)>>
              ELSE running = t => after = before]_vars

C2_Witness ==
    \E t \in Tasks :
        /\ client # "none"
        /\ task[t].pc = "final"
        /\ task[t].result.has = "response"
        /\ Len(History(t)) = 4

\* C3: in mock mode no pass calls the backend or runs an agent; a pass that has
\* emitted its final event has emitted exactly the progress event and that one
\* final event, whose text is the mock prefix, the agent's name and the first
\* 100 characters of the input; the history holds two entries per such pass,
\* user then assistant with that text.
MockText(message_text) ==
    <<"[Mock Response] ", RootAgent, " processed: ">>
        \o [i \in 1..(IF Len(message_text) < 100 THEN Len(message_text) ELSE 100)
               |-> message_text[i]]

C3_MockMode ==
    client = "none" =>
        /\ \A n \in Nodes : agentClient[n] = "none" /\ agentContext[n] = FreshCtx
        /\ \A t \in Tasks :
              /\ task[t].backendCalls = 0
              /\ task[t].stack = << >>
              /\ task[t].pc # "cancelled"
              /\ Emitted(t) =>
                    /\ Len(task[t].events) = 2
                    /\ ~task[t].events[1].is_final
                    /\ task[t].events[2] =
                           FinalEvent(MockText(task[t].message_text), task[t].session_id)
                    /\ \E i \in 1..(Len(History(t)) - 1) :
                           /\ History(t)[i] = Entry("user", task[t].message_text)
                           /\ History(t)[i + 1] =
                                  Entry("assistant", MockText(task[t].message_text))
        /\ \A u \in Users, sid \in SessionIds :
              Len(MessagesOf(sessions, AppName, u, sid)) =
                  2 * Cardinality({t \in Tasks : Emitted(t) /\ task[t].user_id = u
                                                   /\ task[t].session_id = sid})

\* two finished mock passes on different sessions, one of them with a
\* context, whose inputs differ only after the 100th character
C3_Witness ==
    /\ client = "none"
    /\ task["p1"].pc = "done" /\ task["p2"].pc = "done"
    /\ task["p1"].message_text # task["p2"].message_text
    /\ task["p1"].session_id # task["p2"].session_id
    /\ task["p1"].events[2].text = task["p2"].events[2].text
    /\ \E t \in Tasks : DOMAIN CtxValue(sessions, SessionCtx(AppName, task[t].user_id,
                                                            task[t].session_id)) # {}

\* C4: a pass whose root agent's backend call failed ends with an error event:
\* the text carries the error message and the metadata is {error}.
C4_BackendFailureIsErrorEvent ==
    \A t \in Tasks :
        (Emitted(t) /\ task[t].result = Error(RootAgent, BackendError)) =>
            /\ DOMAIN LastEvent(t).metadata = {"error"}
            /\ Contains(LastEvent(t).text, BackendError)

\* C5: while a sub-agent of a node is in progress, it is the one at the list
\* position after the sub-agents that have returned, and those are the list's
\* prefix in list order; the concatenated result of a node with sub-agents
\* shows the node's own label, then its sub-agents' labels in list order.
C5_SequentialInListOrder ==
    \A t \in Tasks :
        /\ \A i \in 1..Len(task[t].stack) :
              LET frame == task[t].stack[i]
                  subs == sub_agents[frame.node]
                  done == Len(frame.subRuns)
              IN  /\ done <= Len(subs)
                  /\ \A j \in 1..done : frame.subRuns[j].name = subs[j]
                  /\ i < Len(task[t].stack) =>
                        /\ frame.pc = "subs"
                        /\ done < Len(subs)
                        /\ task[t].stack[i + 1].node = subs[done + 1]
                  /\ (frame.pc = "callback" /\ subs # << >>) =>
                        LabelsOf(frame.response, frame.node) = ExpectedLabels(frame.node)
        /\ (task[t].result.has = "response" /\ sub_agents[RootAgent] # << >>) =>
              /\ LabelsOf(task[t].result.value, RootAgent) = ExpectedLabels(RootAgent)
              /\ [j \in DOMAIN task[t].rootRun |-> task[t].rootRun[j].name]
                     = sub_agents[RootAgent]

\* the root of the three-sub-agent tree has returned its concatenated result
C5_Witness ==
    \E t \in Tasks :
        /\ sub_agents = FlatTree
        /\ task[t].pc = "persist"
        /\ task[t].result.has = "response"
        /\ Len(task[t].rootRun) = 3

\* C6: every sub-agent in progress was run with its parent's own output as its
\* input and with the context its parent's run was given (as bound by
\* `context or {}` when the parent's run began).
C6_ParentOutputAndContext ==
    \A t \in Tasks : \A i \in 2..Len(task[t].stack) :
        /\ task[t].stack[i].prompt = task[t].stack[i - 1].response
        /\ task[t].stack[i].context = task[t].stack[i - 1].bound

\* C7 (as claimed): a sub-agent started after a sibling has returned receives
\* that sibling's output as its input.
C7_FedPrecedingSibling ==
    \A t \in Tasks : \A i \in 2..Len(task[t].stack) :
        LET parent == task[t].stack[i - 1]
        IN  parent.subRuns # << >> =>
                task[t].stack[i].prompt =
                    ResultGet(parent.subRuns[Len(parent.subRuns)].result, "response", << >>)

\* C7 (amended): every sub-agent, the first and the later ones alike, receives
\* the parent's own output as its input, whatever its earlier siblings returned.
C7_FedParentOutput ==
    \A t \in Tasks : \A i \in 1..Len(task[t].stack) :
        LET frame == task[t].stack[i]
        IN  /\ i > 1 => frame.prompt = task[t].stack[i - 1].response
            /\ frame.pc = "subs" =>
                   \A j \in DOMAIN frame.subRuns : frame.subRuns[j].prompt = frame.response

\* the third sub-agent is in progress and the sibling before it returned
\* something else than the parent's output
C7_Witness ==
    \E t \in Tasks :
        /\ Len(task[t].stack) = 2
        /\ Len(task[t].stack[1].subRuns) = 2
        /\ task[t].stack[1].subRuns[2].result.has = "response"
        /\ task[t].stack[1].subRuns[2].result.value # task[t].stack[1].response

HasFailedSubAgent(subRuns) ==
    \E j \in DOMAIN subRuns : subRuns[j].result.has = "error"

\* C8: a node's run ends in an error only through its own backend call, tool or
\* callback, never through a sub-agent; a node one of whose sub-agents failed
\* leaves its loop only when every sub-agent has run, and its result is then a
\* response with one label per sub-agent, the failed one included.
C8_FailureDoesNotAbort ==
    \A t \in Tasks :
        /\ \A i \in 1..Len(task[t].stack) :
              LET frame == task[t].stack[i]
              IN  /\ (frame.pc = "return" /\ frame.result.has = "error"
                         /\ ~HasCallback(frame.node)) => frame.results = << >>
                  /\ HasFailedSubAgent(frame.subRuns) =>
                        /\ frame.pc \in {"subs", "callback", "return"}
                        /\ frame.pc # "subs" =>
                              Len(frame.subRuns) = Len(sub_agents[frame.node])
                        /\ (frame.pc = "callback"
                               \/ (frame.pc = "return" /\ ~HasCallback(frame.node))) =>
                              LabelsOf(frame.response, frame.node)
                                  = ExpectedLabels(frame.node)
                        /\ (frame.pc = "return" /\ ~HasCallback(frame.node)) =>
                              frame.result = Response(frame.node, frame.response)
        /\ task[t].result.has = "error" => task[t].rootRun = << >>
        /\ HasFailedSubAgent(task[t].rootRun) =>
              /\ task[t].result.has = "response"
              /\ Len(task[t].rootRun) = Len(sub_agents[RootAgent])
              /\ LabelsOf(task[t].result.value, RootAgent) = ExpectedLabels(RootAgent)

\* the root has returned a response although its first sub-agent's backend
\* call failed, and the two after it were run
C8_Witness ==
    \E t \in Tasks :
        /\ Len(task[t].rootRun) = 3
        /\ task[t].rootRun[1].result = Error("A", BackendError)
        /\ task[t].rootRun[3].result.has = "response"
        /\ task[t].result.has = "response"

\* C9: the error message of a failed sub-agent is part of the segment the
\* parent appends for it.
C9_ErrorMessageInSegment ==
    \A t \in Tasks : \A i \in 1..Len(task[t].stack) :
        LET frame == task[t].stack[i]
        IN  \A j \in DOMAIN frame.subRuns :
                frame.subRuns[j].result.has = "error" =>
                    Contains(frame.results[j + 1], frame.subRuns[j].result.value)

\* C10: a run has called the backend at most once: not yet before its await,
\* exactly once after it, also after a tool was executed or the call failed;
\* a pass has made at most one call per node of the tree.
C10_OneBackendCallPerRun ==
    \A t \in Tasks :
        /\ \A i \in 1..Len(task[t].stack) :
              LET frame == task[t].stack[i]
              IN  /\ frame.calls = IF frame.pc = "llm" THEN 0 ELSE 1
                  /\ Len(frame.executed) <= 1
        /\ task[t].backendCalls <= Cardinality(TreeNodes(sub_agents, RootAgent))
        /\ (/\ task[t].pc \in {"persist", "final", "done"}
            /\ client # "none"
            /\ \A j \in DOMAIN task[t].rootRun :
                   sub_agents[task[t].rootRun[j].name] = << >>) =>
              task[t].backendCalls = 1 + Len(task[t].rootRun)

\* the root executed a tool, a sub-agent's call failed, and the pass has made
\* one call per node
C10_Witness ==
    \E t \in Tasks :
        /\ Len(task[t].stack) = 2
        /\ task[t].stack[1].executed # << >>
        /\ HasFailedSubAgent(task[t].stack[1].subRuns)
        /\ task[t].stack[2].pc = "return"
        /\ task[t].backendCalls = 4

Frames(t) == {task[t].stack[i] : i \in DOMAIN task[t].stack}

\* a run that is past the backend's reply and past the tool call, if any
PastTool(frame) == frame.pc \in {"subs", "callback", "return"} /\ frame.parts # << >>

\* the node's own output, which the frame holds until the concatenation
OwnOutput(frame) == frame.pc = "subs"

\* C11: a run whose backend reply has a function call naming one of the node's
\* tools has executed exactly that tool, once, with the arguments of that
\* call, and no other tool, and its own output is the (JSON) result of that
\* tool; a run whose reply has text and no function call has executed no tool
\* and its own output is the reply's text.  No tool runs before the reply.
C11_ToolDispatch ==
    \A t \in Tasks : \A frame \in Frames(t) :
        LET c == FirstCall(frame.parts)
        IN  /\ ~PastTool(frame) => frame.executed = << >>
            /\ (PastTool(frame) /\ c = 0) =>
                  /\ frame.executed = << >>
                  /\ OwnOutput(frame) => frame.response = frame.parts[1].text
            /\ (PastTool(frame) /\ c # 0) =>
                  (frame.parts[c].function_call \in Range(tools[frame.node]) =>
                      /\ frame.executed = <<[name |-> frame.parts[c].function_call,
                                            args |-> frame.parts[c].args]>>
                      /\ OwnOutput(frame) =>
                            frame.response =
                                JsonDumps(ToolResult(frame.parts[c].function_call,
                                                     frame.parts[c].args)))

\* the root was answered with text and a call of its second tool, and has
\* that tool's result as its output
C11_Witness ==
    \E t \in Tasks : \E frame \in Frames(t) :
        /\ frame.pc = "subs"
        /\ Len(frame.parts) = 2
        /\ frame.executed = <<[name |-> "t2", args |-> "a2"]>>
        /\ frame.response = JsonDumps(ToolResult("t2", "a2"))

\* C12: a run whose backend reply requests a tool the node does not have
\* raises nothing: it has executed no tool, its own output is the
\* tool-not-found payload, it goes on to run every sub-agent, and its result
\* is a response whose text holds that payload.
C12_ToolNotFound ==
    \A t \in Tasks : \A frame \in Frames(t) :
        LET c == FirstCall(frame.parts)
        IN  (/\ frame.pc \in {"subs", "callback", "return"}
             /\ c # 0
             /\ frame.parts[c].function_call \notin Range(tools[frame.node])) =>
                /\ frame.executed = << >>
                /\ OwnOutput(frame) =>
                      frame.response = ToolNotFound(frame.parts[c].function_call)
                /\ frame.pc # "subs" =>
                      Len(frame.subRuns) = Len(sub_agents[frame.node])
                /\ (frame.pc = "return" /\ ~HasCallback(frame.node)) =>
                      /\ frame.result = Response(frame.node, frame.response)
                      /\ Contains(frame.response,
                                  ToolNotFound(frame.parts[c].function_call))

\* the root was asked for an unknown tool and returns a response after its
\* three sub-agents have run
C12_Witness ==
    \E t \in Tasks : \E frame \in Frames(t) :
        /\ frame.pc = "return"
        /\ frame.function_call = "zz"
        /\ Len(frame.subRuns) = 3
        /\ frame.result.has = "response"

\* C14: once a pass of a Runner with a backend has initialized the root,
\* every node of the tree, at every depth, has the Runner's handle, and no
\* run and no event of a pass reports a node that is not initialized.
C14_WholeTreeInitialized ==
    (client # "none" /\ \E t \in Tasks : task[t].pc # "idle") =>
        /\ \A n \in TreeNodes(sub_agents, RootAgent) : agentClient[n] = client
        /\ \A t \in Tasks :
              /\ \A frame \in Frames(t) :
                    /\ agentClient[frame.node] = client
                    /\ \A n \in Nodes : frame.result.value # NotInitialized(n)
              /\ \A i \in DOMAIN task[t].events :
                    \A n \in Nodes :
                        ~Contains(task[t].events[i].text, NotInitialized(n))

\* the node two levels below the root is running, with the Runner's handle
C14_Witness ==
    \E t \in Tasks :
        /\ sub_agents = DeepTree
        /\ Len(task[t].stack) = 3
        /\ task[t].stack[3].node = "A"
        /\ agentClient["A"] = Handle
        /\ task[t].stack[3].pc = "return"

\* C15: a node without a callback never invokes one; a node with a callback
\* invokes it only after its last sub-agent has returned, once, with the node
\* and the concatenated response; the run's response is then what the
\* callback returned when it returned a text, and the unchanged response when
\* it returned nothing.
C15_CallbackOnceAndReplaces ==
    \A t \in Tasks : \A frame \in Frames(t) :
        /\ (~HasCallback(frame.node) \/ frame.pc # "return") => frame.callbacks = << >>
        /\ (HasCallback(frame.node) /\ frame.pc = "return"
                /\ Len(frame.subRuns) = Len(sub_agents[frame.node])
                /\ frame.parts # << >> /\ frame.callbacks # << >>) =>
              /\ Len(frame.callbacks) = 1
              /\ frame.callbacks[1].ctx.agent = frame.node
              /\ sub_agents[frame.node] # << >> =>
                    frame.callbacks[1].ctx.response = JoinLines(frame.results)
              /\ frame.callbacks[1].outcome \in {"replace", "empty"} =>
                    frame.result = Response(frame.node,
                                            CallbackResult(frame.callbacks[1].outcome).text)
              /\ frame.callbacks[1].outcome = "none" =>
                    frame.result = Response(frame.node, frame.callbacks[1].ctx.response)
        /\ (HasCallback(frame.node) /\ frame.pc = "return"
                /\ frame.result.has = "response") => Len(frame.callbacks) = 1

\* C13: a call of run on a node that has no backend handle raises the
\* not-initialized error to its caller and gives no result; it makes no
\* backend call, starts no run (so no tool and no sub-agent), and leaves the
\* context of every node, the handles and the session store as they were.
\* A node without a handle has the context it was constructed with.
C13_NotInitializedRaises ==
    [][\A t \in Tasks :
          /\ (task[t].pc = "idle" /\ task'[t].pc # "idle"
                  /\ agentClient[task'[t].direct] = "none") =>
                /\ task'[t].pc = "raised"
                /\ agentContext' = agentContext
                /\ agentClient' = agentClient
                /\ sessions' = sessions
                /\ running' = "none"
          /\ task'[t].pc = "raised" =>
                /\ task'[t].raised = NotInitialized(task'[t].direct)
                /\ task'[t].result = NoResult
                /\ task'[t].stack = << >>
                /\ task'[t].backendCalls = 0
          /\ task'[t].pc = "returned" =>
                task'[t].result.value # NotInitialized(task'[t].direct)
          /\ \A n \in Nodes : agentClient'[n] = "none" => agentContext'[n] = FreshCtx
      ]_vars

\* run was called on the root while it had no handle and raised, and a run
\* of another node, initialized on its own, has returned
C13_Witness ==
    \E t \in Tasks, u \in Tasks :
        /\ task[t].pc = "raised"
        /\ task[t].direct = "root"
        /\ task[u].pc = "returned"
        /\ agentContext[task[u].direct] # FreshCtx

(***************************************************************************)
(* Properties of the session service, on the application's last call       *)
(***************************************************************************)
Called(op) == ret.op = op
HistoryOf(store, sid) == MessagesOf(store, AppName, StoreUser, sid)
IsPrefix(a, b) == Len(a) <= Len(b) /\ SubSeq(b, 1, Len(a)) = a

\* the call left the session of key sid, present or absent, as it was
Untouched(sid) ==
    /\ Has(sessions, sid) = Has(ret.before, sid)
    /\ Has(sessions, sid) => Stored(sessions, sid) = Stored(ret.before, sid)

\* C16: get_session always returns a session, the one stored under the key
\* after the call.  On a key with no session it is a new one: empty history,
\* empty context and the ids of the key.  On a key with a session it is the
\* stored record as it was, messages and context included, and the call
\* changes no session.
C16_GetOrCreate ==
    Called("get_session") =>
        /\ Has(sessions, ret.sid)
        /\ ret.value = Stored(sessions, ret.sid)
        /\ ~Has(ret.before, ret.sid) =>
              /\ ret.value.messages = << >>
              /\ ret.value.context = EmptyDict
              /\ ret.value.session_id = ret.sid
              /\ ret.value.user_id = StoreUser
              /\ ret.value.app_name = AppName
        /\ Has(ret.before, ret.sid) => ret.value = Stored(ret.before, ret.sid)
        /\ \A s \in SessionIds : (s # ret.sid \/ Has(ret.before, s)) => Untouched(s)

\* get_session on a session that has two messages and a context
C16_Witness ==
    /\ Called("get_session")
    /\ Has(ret.before, ret.sid)
    /\ Len(ret.value.messages) = 2
    /\ ret.value.context # EmptyDict

\* C17: add_message appends its entry to the history of its key; the history
\* of a session is exactly the entries add_message was called with since the
\* session was created, in call order (as long as update_session has not
\* replaced it); get_messages leaves the history as it is and returns all of
\* it with no limit, and its last min(k, N) entries with limit k >= 1.
C17_MessagesInCallOrder ==
    /\ Called("add_message") =>
          /\ ret.value = [role |-> ret.args[1], content |-> ret.args[2],
                          metadata |-> EmptyDict]
          /\ HistoryOf(sessions, ret.sid) =
                 Append(HistoryOf(ret.before, ret.sid), ret.value)
    /\ \A s \in SessionIds :
          (Has(sessions, s) /\ ~log[s].overwritten) =>
              HistoryOf(sessions, s) = log[s].entries
    /\ Called("get_messages") =>
          LET h == HistoryOf(ret.before, ret.sid)
              N == Len(h)
              k == ret.args.n
          IN  /\ HistoryOf(sessions, ret.sid) = h
              /\ ret.args.none => ret.value = h
              /\ (~ret.args.none /\ k >= 1) =>
                    /\ Len(ret.value) = Min(k, N)
                    /\ \A i \in 1..Min(k, N) : ret.value[i] = h[N - Min(k, N) + i]

\* get_messages(limit=1) after two add_message calls with different contents
C17_Witness ==
    /\ Called("get_messages")
    /\ ~ret.args.none /\ ret.args.n = 1
    /\ ~log[ret.sid].overwritten
    /\ Len(log[ret.sid].entries) = 2
    /\ log[ret.sid].entries[1] # log[ret.sid].entries[2]
    /\ ret.value = <<log[ret.sid].entries[2]>>

\* C18: whatever the call, unless it is delete_session of that key, the
\* history a key had before the call is a prefix of the history it has after.
C18_AppendOnly ==
    ~Called("none") =>
        \A s \in SessionIds :
            ~(Called("delete_session") /\ ret.sid = s) =>
                IsPrefix(HistoryOf(ret.before, s), HistoryOf(sessions, s))

\* C19: update_session on a key with no session raises and creates none (no
\* session changes); on a key with a session it does not raise; no other
\* call raises; get_session, add_message, get_messages, update_context and
\* get_context leave a session under their key.
C19_OnlyUpdateSessionRaises ==
    ~Called("none") =>
        /\ ret.raised <=> (Called("update_session") /\ ~Has(ret.before, ret.sid))
        /\ ret.raised =>
              /\ ~Has(sessions, ret.sid)
              /\ \A s \in SessionIds : Untouched(s)
        /\ ret.op \in {"get_session", "add_message", "get_messages",
                       "update_context", "get_context"} => Has(sessions, ret.sid)

\* update_session raised on a key with no session while the other key has one
C19_Witness ==
    /\ Called("update_session")
    /\ ret.raised
    /\ \E s \in SessionIds : s # ret.sid /\ Has(sessions, s)

\* C20: a key that has a session before a call has one after it, unless the
\* call is delete_session of that key; delete_session returns whether the key
\* had a session, leaves the key without one and every other session as it
\* was; get_session on a key without a session gives one with empty history.
C20_DeleteSession ==
    ~Called("none") =>
        /\ \A s \in SessionIds :
              (Has(ret.before, s) /\ ~(Called("delete_session") /\ ret.sid = s)) =>
                  Has(sessions, s)
        /\ Called("delete_session") =>
              /\ ret.value = Has(ret.before, ret.sid)
              /\ ~Has(sessions, ret.sid)
              /\ \A s \in SessionIds : s # ret.sid => Untouched(s)
        /\ (Called("get_session") /\ ~Has(ret.before, ret.sid)) =>
              HistoryOf(sessions, ret.sid) = << >>

\* delete_session returned true for a session with two messages, and the
\* session of the other key is still there with its message
C20_Witness ==
    /\ Called("delete_session")
    /\ ret.value
    /\ Len(HistoryOf(ret.before, ret.sid)) = 2
    /\ \E s \in SessionIds : s # ret.sid /\ Len(HistoryOf(sessions, s)) = 1

(***************************************************************************)
(* Listing and statistics                                                  *)
(***************************************************************************)
\* The place of session `sid` in a listing (0: not listed)
Place(list, sid) ==
    IF \E i \in 1..Len(list) : list[i].session_id = sid
    THEN CHOOSE i \in 1..Len(list) : list[i].session_id = sid
    ELSE 0

Mutation == {"add_message", "update_context", "update_session"}

\* C21: list_sessions returns exactly the sessions of the partition it was
\* called for, none of another partition, and in the listing a session that
\* add_message, update_context or update_session has just mutated comes
\* before every other session of the partition that was mutated earlier
\* (one that holds a message was mutated by add_message).
C21_ListedMostRecentFirst ==
    /\ Called("list_sessions") =>
          /\ Range(ret.value) = {Stored(ret.before, s) : s \in {x \in SessionIds : Has(ret.before, x)}}
          /\ Len(ret.value) = Cardinality({x \in SessionIds : Has(ret.before, x)})
          /\ \A i \in 1..Len(ret.value) : ret.value[i].user_id = StoreUser
    /\ (ret.op \in Mutation /\ ~ret.raised) =>
          LET list == list_sessions(sessions, keys, AppName, StoreUser)
          IN  \A s \in SessionIds \ {ret.sid} :
                  (Has(sessions, s) /\ HistoryOf(sessions, s) # << >>) =>
                      Place(list, ret.sid) < Place(list, s)

\* The passes that have stored their two entries
Stored2 == {t \in Tasks : task[t].pc \in {"final", "done"}}

\* C22: in every reachable state, between the steps of concurrent passes
\* too, get_stats reports as total_sessions the number of session keys that
\* exist over all user partitions and as total_messages the number of
\* entries of all their histories, which is two for every pass that has
\* stored its entries.
C22_StatsCountEverySessionOnce ==
    LET existing == {k \in {AppName} \X AllUsers \X SessionIds :
                         HasSession(sessions, k[1], k[2], k[3])}
        entries == {<<k, i>> \in existing \X (1..(2 * Cardinality(Tasks))) :
                        i <= Len(MessagesOf(sessions, k[1], k[2], k[3]))}
    IN  /\ get_stats(sessions).total_sessions = Cardinality(existing)
        /\ get_stats(sessions).total_messages = Cardinality(entries)
        /\ get_stats(sessions).total_messages = 2 * Cardinality(Stored2)

\* Sessions of two users, one of them with the entries of a finished pass,
\* while another pass is suspended at its first yield.
C22_Witness ==
    /\ get_stats(sessions).total_sessions >= 3
    /\ get_stats(sessions).total_messages = 2
    /\ \E u \in AllUsers, v \in AllUsers :
           /\ u # v
           /\ \E s \in SessionIds : HasSession(sessions, AppName, u, s)
           /\ \E s \in SessionIds : HasSession(sessions, AppName, v, s)
    /\ \E t \in Tasks : task[t].pc = "progress"

(***************************************************************************)
(* Session context                                                         *)
(***************************************************************************)
\* The context of session sid in the store (none: the empty one of the
\* session that the call creates)
ContextOf(store, sid) ==
    IF Has(store, sid) THEN Stored(store, sid).context ELSE EmptyDict

\* C23: update_context leaves the context with, for every key of the call,
\* the value of the call, and for every other key the value it had; it
\* returns that context, and get_context returns the context as the last
\* update_context left it, changing nothing.  So after any sequence of
\* update_context calls every key has the value of the latest call that
\* contained it.
C23_LastWriteWinsPerKey ==
    /\ Called("update_context") =>
          LET old == ContextOf(ret.before, ret.sid)
              new == ContextOf(sessions, ret.sid)
          IN  /\ Has(sessions, ret.sid)
              /\ DOMAIN new = (DOMAIN old) \cup (DOMAIN ret.args)
              /\ \A key \in DOMAIN ret.args : new[key] = ret.args[key]
              /\ \A key \in (DOMAIN old) \ (DOMAIN ret.args) : new[key] = old[key]
              /\ ret.value = new
              /\ \A s \in SessionIds \ {ret.sid} : Untouched(s)
    /\ Called("get_context") =>
          /\ ret.value = ContextOf(ret.before, ret.sid)
          /\ ContextOf(sessions, ret.sid) = ret.value
          /\ \A s \in SessionIds : Has(ret.before, s) => Untouched(s)

\* get_context after a call that has overwritten one key (k: "w" by "x")
\* and kept another that an earlier call had set (j).
C23_Witness ==
    /\ Called("get_context")
    /\ ret.value = [k |-> "x", j |-> "w"]

(***************************************************************************)
(* Concurrent passes on one session                                        *)
(***************************************************************************)
\* The passes for session (user, sid) that have emitted their final event
PassesOn(user, sid) ==
    {t \in Tasks : Emitted(t) /\ task[t].user_id = user /\ task[t].session_id = sid}

\* C24: whatever the interleaving of the passes at their suspension points,
\* the history of a session holds exactly two entries for every pass against
\* it that has completed, and for each such pass its user entry at an
\* earlier place than its assistant entry, every place taken by one entry
\* of one pass: no entry is lost.
C24_NoMessageLost ==
    \A u \in Users, s \in SessionIds :
        LET P == PassesOn(u, s)
            h == MessagesOf(sessions, AppName, u, s)
        IN  /\ Len(h) = 2 * Cardinality(P)
            /\ \E f \in [P -> 1..Len(h)], g \in [P -> 1..Len(h)] :
                   /\ \A t \in P :
                          /\ f[t] < g[t]
                          /\ h[f[t]] = Entry("user", task[t].message_text)
                          /\ h[g[t]] = Entry("assistant", task[t].response_text)
                   /\ Cardinality({f[t] : t \in P} \cup {g[t] : t \in P})
                          = 2 * Cardinality(P)

\* Two passes with a backend against one session id, both at their final
\* yield (neither stream has ended), with different inbound texts: the
\* history holds the four entries.
C24_Witness ==
    /\ client # "none"
    /\ \E u \in Users, s \in SessionIds :
           /\ PassesOn(u, s) = Tasks
           /\ Len(MessagesOf(sessions, AppName, u, s)) = 2 * Cardinality(Tasks)
    /\ \A t \in Tasks : task[t].pc = "final" /\ task[t].backendCalls >= 1
    /\ \A t1, t2 \in Tasks : t1 # t2 => task[t1].message_text # task[t2].message_text

(***************************************************************************)
(* MetricsCollector                                                        *)
(***************************************************************************)
\* The threads inside the `with self._lock:` block of method op
Inside(op) == {th \in Threads : thread[th].op = op /\ thread[th].pc \notin {"idle", "lock"}}

\* C25: whatever the interleaving of the increment calls, every get_metrics
\* reports for every counter key the sum of the increments that have
\* completed since the last reset, and the counters hold these sums whenever
\* no increment and no reset is inside its block: no increment is lost.
C25_NoIncrementLost ==
    /\ report.has =>
          /\ DOMAIN report.counters = DOMAIN report.recorded.counters
          /\ \A key \in DOMAIN report.counters :
                 report.counters[key] = report.recorded.counters[key]
    /\ (Inside("increment") = {} /\ Inside("reset") = {}) =>
          /\ DOMAIN counters = DOMAIN recorded.counters
          /\ \A key \in DOMAIN counters : counters[key] = recorded.counters[key]

\* get_metrics reports 2 for a counter incremented by two calls of which one
\* was made while the other had not completed.
C25_Witness ==
    /\ report.has
    /\ report.recorded.concurrent
    /\ "x" \in DOMAIN report.counters
    /\ report.counters["x"] = 2

\* The least and the greatest of the observations
Least(obs) == CHOOSE m \in Range(obs) : \A v \in Range(obs) : m <= v
Greatest(obs) == CHOOSE m \in Range(obs) : \A v \in Range(obs) : m >= v

\* C26: every get_metrics reports a histogram for exactly the keys that have
\* an observation since the last reset, and for each of them the count, the
\* sum, the mean (sum over count), the least and the greatest of exactly the
\* observations recorded since that reset, in whatever order they came.
C26_HistogramStatistics ==
    report.has =>
        LET obs == report.recorded.histograms
        IN  /\ DOMAIN report.histograms = {key \in DOMAIN obs : obs[key] # << >>}
            /\ \A key \in DOMAIN report.histograms :
                   LET r == report.histograms[key]
                   IN  /\ r.count = Len(obs[key])
                       /\ r.sum = SumOf(obs[key])
                       /\ r.mean.num * r.count = r.mean.den * r.sum
                       /\ r.min = Least(obs[key])
                       /\ r.max = Greatest(obs[key])

\* The observations 1, 2, 3 recorded in another order than the sorted one,
\* the calls of two of them waiting for the lock at the same time.
C26_Witness ==
    /\ report.has
    /\ "y" \in DOMAIN report.histograms
    /\ report.histograms["y"] =
           [count |-> 3, sum |-> 6, mean |-> [num |-> 2, den |-> 1], min |-> 1, max |-> 3]
    /\ report.recorded.histograms["y"] = <<3, 1, 2>>

\* The threads that take a step of get_metrics: the call, the acquisition of
\* the lock, the reduction or the return
Stepping(op) ==
    {th \in Threads : thread'[th] # thread[th]
                         /\ (thread[th].op = op \/ thread'[th].op = op)}

\* C27: no step of get_metrics changes the counters, the gauges or the
\* histogram observations, the state at its return is the state it found when
\* it took the lock, and a get_metrics that finds the state the previous
\* get_metrics left reports the same counters, gauges and histogram
\* statistics as the previous one.
C27_GetMetricsChangesNothing ==
    [][ /\ Stepping("get_metrics") # {} => UNCHANGED <<counters, gauges, histograms>>
        /\ report' # report =>
              /\ report'.state = report'.seen
              /\ (report.has /\ report.state = report'.seen) =>
                    /\ report'.counters = report.counters
                    /\ report'.gauges = report.gauges
                    /\ report'.histograms = report.histograms
      ]_vars

\* A get_metrics about to return that found the state the previous
\* get_metrics left, a counter, a gauge and a histogram in it.
C27_Witness ==
    /\ report.has
    /\ report.state.counters # << >>
    /\ report.state.gauges # << >>
    /\ report.state.histograms # << >>
    /\ \E th \in Threads :
          /\ At(th, "get_metrics", "return")
          /\ thread[th].seen = report.state
          /\ thread[th].histogram_stats = report.histograms
          /\ MetricState = report.state

\* The step in which a reset returns
ResetReturns ==
    \E th \in Threads : At(th, "reset", "clear_histograms") /\ thread'[th].pc = "idle"

\* C28: reset is one atomic step for the readers.  The state a reset leaves
\* at its return has no counter, no gauge and no histogram; a get_metrics that
\* finds that state reports all three empty; and no get_metrics holds the lock
\* (so none reads the state) while a reset is between its first and its last
\* clear.
C28_ResetIsAtomic ==
    [][ /\ ResetReturns => MetricState' = NoMetrics
        /\ (report' # report /\ report'.seen = NoMetrics) =>
              /\ report'.counters = << >>
              /\ report'.gauges = << >>
              /\ report'.histograms = << >>
        /\ Inside("get_metrics")' # {} => Inside("reset")' = {}
      ]_vars

\* A reset has cleared the counters and not yet the gauges and the
\* histograms, which hold values, while a get_metrics waits for the lock.
C28_Witness ==
    /\ \E th \in Threads : At(th, "reset", "clear_gauges")
    /\ \E th \in Threads : At(th, "get_metrics", "lock")
    /\ counters = << >>
    /\ recorded.counters = << >>
    /\ gauges # << >>
    /\ histograms # << >>

\* The last call had `trace_id` ended before it
AfterEnd(op) ==
    /\ tret.op = op
    /\ tret.trace_id \in DOMAIN tret.before
    /\ Ended(tret.before[tret.trace_id])

\* C29: add_span for a trace id that end_trace was called for leaves the
\* spans of every trace as they were.
C29_NoSpanAfterEnd ==
    AfterEnd("add_span") =>
        /\ DOMAIN traces = DOMAIN tret.before
        /\ \A x \in DOMAIN traces : traces[x].spans = tret.before[x].spans

\* C30: the first end_trace of a trace returns its record, with the spans
\* added so far in their order and the duration end_time - start_time, and
\* every later end_trace of it returns an empty result.
C30_EndTraceConsumes ==
    /\ (tret.op = "end_trace" /\ tret.trace_id \in DOMAIN tret.before
           /\ ~Ended(tret.before[tret.trace_id])) =>
          /\ tret.value.spans = tret.before[tret.trace_id].spans
          /\ tret.value.operation = tret.before[tret.trace_id].operation
          /\ tret.value.start_time = tret.before[tret.trace_id].start_time
          /\ tret.value.end_time = tret.at
          /\ tret.value.total_duration_ms =
                 (tret.value.end_time - tret.value.start_time) * 1000
    /\ AfterEnd("end_trace") => DOMAIN tret.value = {}

\* The last call was `op` for a trace id that no start_trace had returned
UnknownId(op) ==
    /\ tret.op = op
    /\ tret.trace_id \notin DOMAIN tret.before

\* C31: add_span and end_trace for a trace id that start_trace never returned
\* leave the traces as they were (no trace made, none changed), end_trace
\* returns an empty record; and start_trace returns an id that no trace has,
\* and leaves every trace that exists as it was.
C31_UnknownIdIsNoOp ==
    /\ UnknownId("add_span") => traces = tret.before
    /\ UnknownId("end_trace") => (traces = tret.before /\ DOMAIN tret.value = {})
    /\ tret.op = "start_trace" =>
          /\ tret.value \notin DOMAIN tret.before
          /\ DOMAIN traces = DOMAIN tret.before \cup {tret.value}
          /\ \A x \in DOMAIN tret.before : traces[x] = tret.before[x]

\* add_span for an id without a trace while another trace holds a span
C31_Witness ==
    /\ UnknownId("add_span")
    /\ \E x \in DOMAIN tret.before : tret.before[x].spans # << >>

\* The context of the session a pass is for
OwnContext(t) == SessionCtx(AppName, task[t].user_id, task[t].session_id)

\* C32: every sub-agent in progress in a pass was run with the context of
\* the pass's own session (or the fresh {} that `context or {}` makes of an
\* empty one), never with the context of another session.
C32_OwnSessionContext ==
    \A t \in Tasks : \A i \in 2..Len(task[t].stack) :
        task[t].direct = "none" =>
            task[t].stack[i].context \in {OwnContext(t), FreshCtx}

\* C33: no pass ends with a fault that leaves run_async (a cancellation of
\* the backend call included), and a pass whose root's backend call raised
\* (a timeout is such an exception) ends with a final event whose metadata
\* carries the error.
C33_TimeoutAndCancelAreErrorEvents ==
    \A t \in Tasks :
        /\ task[t].pc # "cancelled"
        /\ StreamEnded(t) =>
              /\ LastEvent(t).is_final
              /\ task[t].result.has = "error" => "error" \in DOMAIN LastEvent(t).metadata

\* The run of the frame ended because the node's own backend call or the
\* tool it executed raised
OwnFailure(frame) ==
    /\ frame.pc = "return"
    /\ frame.result.has = "error"
    /\ frame.result.value \in {BackendError, ToolError}

\* C34: a run that returns holds a result of its own node that is either a
\* response or an error; a run whose own backend call or tool raised has run
\* no sub-agent and invoked no callback, and returns the error.
C34_OwnFailureEndsTheRun ==
    \A t \in Tasks : \A frame \in Frames(t) :
        /\ frame.pc = "return" =>
              /\ frame.result.agent = frame.node
              /\ frame.result.has \in {"response", "error"}
        /\ frame.pc # "return" => frame.result = NoResult
        /\ OwnFailure(frame) =>
              /\ frame.subRuns = << >>
              /\ frame.results = << >>
              /\ frame.callbacks = << >>
              /\ frame.response = << >>

\* the backend call of a node that has sub-agents and a callback failed
C34_Witness ==
    \E t \in Tasks : \E frame \in Frames(t) :
        /\ OwnFailure(frame)
        /\ HasCallback(frame.node)
        /\ sub_agents[frame.node] # << >>
        /\ frame.result.value = BackendError

\* C35: get_messages with limit 0 on a session that has messages returns the
\* empty list.
C35_LimitZeroIsEmpty ==
    (/\ Called("get_messages")
     /\ ret.args = Limit(0)
     /\ Len(HistoryOf(ret.before, ret.sid)) >= 1) => ret.value = << >>

\* The sessions under other keys than the one of the last call
OtherKeys == SessionKeys(ret.before) \ {<<AppName, StoreUser, ret.sid>>}

\* C36: add_message and update_context leave every session under another
\* (application, user, session id) key in the store with the messages, the
\* context and the metadata it had.
C36_OtherSessionsUntouched ==
    ret.op \in {"add_message", "update_context"} =>
        \A k \in OtherKeys :
            /\ HasSession(sessions, k[1], k[2], k[3])
            /\ sessions[k[1]][k[2]][k[3]].messages = ret.before[k[1]][k[2]][k[3]].messages
            /\ sessions[k[1]][k[2]][k[3]].context = ret.before[k[1]][k[2]][k[3]].context
            /\ sessions[k[1]][k[2]][k[3]].metadata = ret.before[k[1]][k[2]][k[3]].metadata

\* update_context changed the context of a session while sessions with the
\* same id are there for another user and in another application
C36_Witness ==
    /\ Called("update_context")
    /\ Has(ret.before, ret.sid)
    /\ Stored(sessions, ret.sid).context # Stored(ret.before, ret.sid).context
    /\ <<AppName, OtherUser, ret.sid>> \in OtherKeys
    /\ <<OtherApp, StoreUser, ret.sid>> \in OtherKeys

\* C37: update_context on a session that exists leaves its metadata and its
\* messages as they were.
C37_ContextOnly ==
    (Called("update_context") /\ Has(ret.before, ret.sid)) =>
        /\ Stored(sessions, ret.sid).metadata = Stored(ret.before, ret.sid).metadata
        /\ Stored(sessions, ret.sid).messages = Stored(ret.before, ret.sid).messages

\* The last call created and changed no session
ChangedNoSession ==
    \/ Called("list_sessions")
    \/ Called("delete_session") /\ ret.value = FALSE
    \/ Called("update_session") /\ ret.raised

\* C38: after list_sessions, a delete_session that returned false or an
\* update_session that raised, get_stats gives the totals and the
\* applications it gave before the call.
C38_StatsUnchanged ==
    ChangedNoSession => get_stats(sessions) = get_stats(ret.before)

\* The calls of the wrapped function that are over
Completed == {x \in DOMAIN traces : Ended(traces[x])}

\* C39: the call of a wrapped function that is over has one trace with one
\* span, ended, and has added 1 to exactly one of op.success (it returned)
\* and op.error (it raised) and nothing to the other; so op.success +
\* op.error is the number of the calls that are over and op.duration_ms has
\* one observation for each call that returned.
C39_OneTraceOneSpanOneCount ==
    /\ tret.op = "trace_operation" =>
          /\ tret.trace_id \in DOMAIN tret.before
          /\ ~Ended(tret.before[tret.trace_id])
          /\ Ended(traces[tret.trace_id])
          /\ Len(traces[tret.trace_id].spans) = 1
          /\ Get(counters, SuccessKey, 0) = Get(tret.counters, SuccessKey, 0)
                                              + (IF tret.value = "return" THEN 1 ELSE 0)
          /\ Get(counters, ErrorKey, 0) = Get(tret.counters, ErrorKey, 0)
                                            + (IF tret.value = "return" THEN 0 ELSE 1)
    /\ Get(counters, SuccessKey, 0) + Get(counters, ErrorKey, 0) = Cardinality(Completed)
    /\ Len(Get(histograms, DurationKey, << >>)) = Get(counters, SuccessKey, 0)

\* C40: with no reset between them, a get_metrics reports for every counter
\* key at least the value the get_metrics before it reported.
C40_CounterNeverDecreases ==
    [][(report.has /\ report'.has) =>
          \A key \in DOMAIN report.counters :
              /\ key \in DOMAIN report'.counters
              /\ report'.counters[key] >= report.counters[key]]_vars

=============================================================================
